---- MODULE Spec2Model ----
(***************************************************************************)
(* A model of the godbc ODBC adapter: connection and transaction state     *)
(* (conn.go, tx.go), the statement state machine (stmt.go), the row        *)
(* iterator and its chunked retrieval (rows.go).  The ODBC driver manager  *)
(* is the environment: every driver call returns a code chosen from the    *)
(* codes the call layer can return.                                        *)
(***************************************************************************)
EXTENDS Integers, Sequences, FiniteSets, TLC

VARIABLES
    txImpl,     \* which of the two Tx implementations kept in tx.go is built
    conn,       \* Conn fields: inTx, closed, dbc, env
    drv,        \* connection attributes at the driver
    txOf,       \* history: what became of the transaction each Tx was made for
    last,       \* the most recent call on the connection and what it did
    stmts,      \* Stmt objects and, per statement handle, what the driver holds
    rws,        \* Rows objects
    op,         \* the statement or iterator call in progress, or the last one
    mu,         \* the goroutine that holds the statement's mutex, or "free"
    thr,        \* per goroutine: its call on the statement and where it stands
    wat,        \* per goroutine: the watcher its call started
    cmu,        \* the goroutine that holds the connection's mutex, or "free"
    cthr,       \* per goroutine: its call on the connection
    gd,         \* the retrieval of one column value
    np,         \* SQL text with named parameters: its parse, prepare and bind
    br,         \* the result of an array-bound batch
    pf          \* a classification or conversion function: its input and result

txVars == <<txImpl, conn, drv, txOf, last>>

bindVars == <<stmts, rws, op>>

stmtVars == <<mu, thr, wat>>

connVars == <<cmu, cthr>>

vars == <<txImpl, conn, drv, txOf, last, stmts, rws, op, mu, thr, wat, cmu, cthr, gd, np, br, pf>>

\* what the calls of one part leave alone
notTx == <<stmts, rws, op, mu, thr, wat, cmu, cthr, gd, np, br, pf>>
notBind == <<txImpl, conn, drv, txOf, last, mu, thr, wat, cmu, cthr, gd, np, br, pf>>
notStmt == <<txImpl, conn, drv, txOf, last, op, cmu, cthr, gd, np, br, pf>>
notConn == <<txImpl, drv, txOf, last, stmts, rws, op, mu, thr, wat, gd, np, br, pf>>
notGet == <<txImpl, conn, drv, txOf, last, stmts, rws, op, mu, thr, wat, cmu, cthr, np, br, pf>>
notNamed == <<txImpl, conn, drv, txOf, last, stmts, rws, op, mu, thr, wat, cmu, cthr, gd, br, pf>>
notPure == <<txImpl, conn, drv, txOf, last, stmts, rws, op, mu, thr, wat, cmu, cthr, gd, np, br>>
notResult == <<txImpl, conn, drv, txOf, last, stmts, rws, op, mu, thr, wat, cmu, cthr, gd, np, pf>>

-----------------------------------------------------------------------------
(* Bounds *)

\* Tx objects handed out by BeginTx in one run
MaxTx == 2

\* Stmt objects and Rows objects created in one run
MaxStmt == 1
MaxRows == 2

\* highest parameter ordinal supplied, values per call, parameter sets per batch
MaxPos == 3
MaxArgs == 2
MaxSets == 2

\* longest column value, in bytes or UTF-16 code units
MaxLen == 600

\* columns of a row, and turns of the truncation loop followed
MaxCols == 2
MaxLoops == 3

\* pieces of a SQL text
MaxQuery == 4

\* characters of a decimal string
MaxDecimal == 4

\* scalars of a string turned into UTF-16
MaxRunes == 2

\* result sets of one statement
MaxResults == 10
MaxHanded == 3
MaxLeaked == 2

\* rows of a batch column
MaxBatchRows == 2

-----------------------------------------------------------------------------
(* Return codes and attribute values, types.go *)

SQL_SUCCESS == 0
SQL_SUCCESS_WITH_INFO == 1
SQL_ERROR == -1
SQL_INVALID_HANDLE == -2
SQL_NO_DATA == 100
SQL_NULL_DATA == -1
SQL_PARAM_SUCCESS == 0
SQL_PARAM_SUCCESS_WITH_INFO == 1
SQL_PARAM_ERROR == 5
SQL_PARAM_UNUSED == 7
SQL_PARAM_DIAG_UNAVAILABLE == 8

SQL_AUTOCOMMIT_OFF == 0
SQL_AUTOCOMMIT_ON == 1
SQL_MODE_READ_WRITE == 0
SQL_MODE_READ_ONLY == 1
SQL_TXN_READ_UNCOMMITTED == 1
SQL_TXN_READ_COMMITTED == 2
SQL_TXN_REPEATABLE_READ == 4
SQL_TXN_SERIALIZABLE == 8

IsSuccess(ret) == ret = SQL_SUCCESS \/ ret = SQL_SUCCESS_WITH_INFO

-----------------------------------------------------------------------------
(* The driver manager, as far as the connection sees it *)

\* what a call on a connection handle can return: a freed (zero) handle is
\* invalid, a live one succeeds, succeeds with info, or fails
ConnRets(dbc) ==
    IF dbc = 0 THEN {SQL_INVALID_HANDLE}
    ELSE {SQL_SUCCESS, SQL_SUCCESS_WITH_INFO, SQL_ERROR}

\* the attribute takes the value exactly when the driver reports success
SetConnectAttr(d, attr, val, ret) ==
    IF IsSuccess(ret) THEN [d EXCEPT ![attr] = val] ELSE d

-----------------------------------------------------------------------------
(* Conn and Tx operations.  Each returns the connection, the driver        *)
(* attributes, the error returned and the driver calls made, in order.     *)

Outcome(c, d, err, calls) == [conn |-> c, drv |-> d, err |-> err, calls |-> calls]

\* isolation mapping of BeginTx
IsoLevel(isolation) ==
    CASE isolation = 1 -> SQL_TXN_READ_UNCOMMITTED
      [] isolation = 2 -> SQL_TXN_READ_COMMITTED
      [] isolation = 3 -> SQL_TXN_READ_COMMITTED
      [] isolation = 4 -> SQL_TXN_REPEATABLE_READ
      [] isolation = 5 -> SQL_TXN_SERIALIZABLE
      [] isolation = 6 -> SQL_TXN_SERIALIZABLE
      [] isolation = 7 -> SQL_TXN_SERIALIZABLE
      [] OTHER -> SQL_TXN_READ_COMMITTED

\* BeginTx without the test of inTx
BeginTxAgain(c, d, isolation, readOnly, retIso, retRo, retAc) ==
    IF c.closed THEN Outcome(c, d, "ErrBadConn", <<>>)
    ELSE
      LET d1 == IF isolation # 0
                THEN SetConnectAttr(d, "isolation", IsoLevel(isolation), retIso)
                ELSE d
          k1 == IF isolation # 0 THEN <<"SetConnectAttr(TXN_ISOLATION)">> ELSE <<>>
      IN IF isolation # 0 /\ ~IsSuccess(retIso) THEN Outcome(c, d1, "Error", k1)
         ELSE
           LET d2 == IF readOnly
                     THEN SetConnectAttr(d1, "accessMode", SQL_MODE_READ_ONLY, retRo)
                     ELSE d1
               k2 == IF readOnly THEN Append(k1, "SetConnectAttr(ACCESS_MODE)") ELSE k1
           IN IF readOnly /\ ~IsSuccess(retRo) THEN Outcome(c, d2, "Error", k2)
              ELSE
                LET d3 == SetConnectAttr(d2, "autocommit", SQL_AUTOCOMMIT_OFF, retAc)
                    k3 == Append(k2, "SetConnectAttr(AUTOCOMMIT)")
                IN IF ~IsSuccess(retAc) THEN Outcome(c, d3, "Error", k3)
                   ELSE Outcome([c EXCEPT !.inTx = TRUE], d3, "nil", k3)

BeginTx(c, d, isolation, readOnly, retIso, retRo, retAc) ==
    IF c.closed THEN Outcome(c, d, "ErrBadConn", <<>>)
    ELSE IF c.inTx THEN Outcome(c, d, "already in a transaction", <<>>)
    ELSE
      LET d1 == IF isolation # 0
                THEN SetConnectAttr(d, "isolation", IsoLevel(isolation), retIso)
                ELSE d
          k1 == IF isolation # 0 THEN <<"SetConnectAttr(TXN_ISOLATION)">> ELSE <<>>
      IN IF isolation # 0 /\ ~IsSuccess(retIso) THEN Outcome(c, d1, "Error", k1)
         ELSE
           LET d2 == IF readOnly
                     THEN SetConnectAttr(d1, "accessMode", SQL_MODE_READ_ONLY, retRo)
                     ELSE d1
               k2 == IF readOnly THEN Append(k1, "SetConnectAttr(ACCESS_MODE)") ELSE k1
           IN IF readOnly /\ ~IsSuccess(retRo) THEN Outcome(c, d2, "Error", k2)
              ELSE
                LET d3 == SetConnectAttr(d2, "autocommit", SQL_AUTOCOMMIT_OFF, retAc)
                    k3 == Append(k2, "SetConnectAttr(AUTOCOMMIT)")
                IN IF ~IsSuccess(retAc) THEN Outcome(c, d3, "Error", k3)
                   ELSE Outcome([c EXCEPT !.inTx = TRUE], d3, "nil", k3)

\* tx.go, first implementation: autocommit and access mode are restored
\* whatever end-transaction returned
Commit(c, d, retEnd, retAc, retAm) ==
    IF ~c.inTx THEN Outcome(c, d, "nil", <<>>)
    ELSE
      LET c1 == [c EXCEPT !.inTx = FALSE]
          d1 == SetConnectAttr(d, "autocommit", SQL_AUTOCOMMIT_ON, retAc)
          k1 == <<"EndTran(COMMIT)", "SetConnectAttr(AUTOCOMMIT)">>
      IN IF ~IsSuccess(retAc) THEN Outcome(c1, d1, "Error", k1)
         ELSE
           LET d2 == SetConnectAttr(d1, "accessMode", SQL_MODE_READ_WRITE, retAm)
               k2 == Append(k1, "SetConnectAttr(ACCESS_MODE)")
           IN IF ~IsSuccess(retEnd) THEN Outcome(c1, d2, "Error", k2)
              ELSE Outcome(c1, d2, "nil", k2)

Rollback(c, d, retEnd, retAc, retAm) ==
    IF ~c.inTx THEN Outcome(c, d, "nil", <<>>)
    ELSE
      LET c1 == [c EXCEPT !.inTx = FALSE]
          d1 == SetConnectAttr(d, "autocommit", SQL_AUTOCOMMIT_ON, retAc)
          k1 == <<"EndTran(ROLLBACK)", "SetConnectAttr(AUTOCOMMIT)">>
      IN IF ~IsSuccess(retAc) THEN Outcome(c1, d1, "Error", k1)
         ELSE
           LET d2 == SetConnectAttr(d1, "accessMode", SQL_MODE_READ_WRITE, retAm)
               k2 == Append(k1, "SetConnectAttr(ACCESS_MODE)")
           IN IF ~IsSuccess(retEnd) THEN Outcome(c1, d2, "Error", k2)
              ELSE Outcome(c1, d2, "nil", k2)

\* tx.go, second implementation: a failed end-transaction returns at once
Commit2(c, d, retEnd, retAc, retAm) ==
    IF ~c.inTx THEN Outcome(c, d, "nil", <<>>)
    ELSE
      LET c1 == [c EXCEPT !.inTx = FALSE]
      IN IF ~IsSuccess(retEnd) THEN Outcome(c1, d, "Error", <<"EndTran(COMMIT)">>)
         ELSE
           LET d1 == SetConnectAttr(d, "autocommit", SQL_AUTOCOMMIT_ON, retAc)
               d2 == SetConnectAttr(d1, "accessMode", SQL_MODE_READ_WRITE, retAm)
           IN Outcome(c1, d2, "nil",
                      <<"EndTran(COMMIT)", "SetConnectAttr(AUTOCOMMIT)",
                        "SetConnectAttr(ACCESS_MODE)">>)

Rollback2(c, d, retEnd, retAc, retAm) ==
    IF ~c.inTx THEN Outcome(c, d, "nil", <<>>)
    ELSE
      LET c1 == [c EXCEPT !.inTx = FALSE]
      IN IF ~IsSuccess(retEnd) THEN Outcome(c1, d, "Error", <<"EndTran(ROLLBACK)">>)
         ELSE
           LET d1 == SetConnectAttr(d, "autocommit", SQL_AUTOCOMMIT_ON, retAc)
               d2 == SetConnectAttr(d1, "accessMode", SQL_MODE_READ_WRITE, retAm)
           IN Outcome(c1, d2, "nil",
                      <<"EndTran(ROLLBACK)", "SetConnectAttr(AUTOCOMMIT)",
                        "SetConnectAttr(ACCESS_MODE)">>)

ConnClose(c, d) ==
    IF c.closed THEN Outcome(c, d, "nil", <<>>)
    ELSE Outcome([c EXCEPT !.closed = TRUE, !.dbc = 0, !.env = 0], d, "nil",
                 <<"Disconnect", "FreeHandle(DBC)", "FreeHandle(ENV)">>)

ResetSession(c, d) ==
    IF c.closed THEN Outcome(c, d, "ErrBadConn", <<>>)
    ELSE IF c.inTx THEN Outcome(c, d, "ErrBadConn", <<>>)
    ELSE Outcome(c, d, "nil", <<>>)

-----------------------------------------------------------------------------
(* The connection driven call by call *)

TxIds == 1..MaxTx
Isolations == 0..8

\* the transaction that is live ends with the call that clears inTx
EndLive(o) ==
    IF conn.inTx /\ ~o.conn.inTx
    THEN [t \in TxIds |-> IF txOf[t] = "live" THEN "ended" ELSE txOf[t]]
    ELSE txOf

TxInit ==
    /\ txImpl \in {1, 2}
    /\ conn = [inTx |-> FALSE, closed |-> FALSE, dbc |-> 1, env |-> 1]
    /\ drv = [autocommit |-> SQL_AUTOCOMMIT_ON, accessMode |-> SQL_MODE_READ_WRITE,
              isolation |-> SQL_TXN_READ_COMMITTED]
    /\ txOf = [t \in TxIds |-> "none"]
    /\ last = [op |-> "none", tx |-> 0, stale |-> FALSE, err |-> "nil", calls |-> <<>>,
               endOk |-> FALSE]

DoBeginTx ==
    \E t \in TxIds, isolation \in Isolations, readOnly \in BOOLEAN,
       retIso, retRo, retAc \in ConnRets(conn.dbc) :
      /\ txOf[t] = "none"
      /\ \A u \in TxIds : u < t => txOf[u] # "none"
      /\ LET o == BeginTx(conn, drv, isolation, readOnly, retIso, retRo, retAc)
         IN /\ conn' = o.conn
            /\ drv' = o.drv
            /\ txOf' = IF o.err = "nil" THEN [txOf EXCEPT ![t] = "live"] ELSE txOf
            /\ last' = [op |-> "BeginTx", tx |-> IF o.err = "nil" THEN t ELSE 0,
                        stale |-> FALSE, err |-> o.err, calls |-> o.calls, endOk |-> FALSE]
      /\ UNCHANGED txImpl
      /\ UNCHANGED notTx

DoCommit ==
    \E t \in TxIds, retEnd, retAc, retAm \in ConnRets(conn.dbc) :
      /\ txOf[t] # "none"
      /\ LET o == IF txImpl = 1 THEN Commit(conn, drv, retEnd, retAc, retAm)
                  ELSE Commit2(conn, drv, retEnd, retAc, retAm)
         IN /\ conn' = o.conn
            /\ drv' = o.drv
            /\ txOf' = EndLive(o)
            /\ last' = [op |-> "Commit", tx |-> t, stale |-> (txOf[t] = "ended"),
                        err |-> o.err, calls |-> o.calls,
                        endOk |-> (conn.inTx /\ IsSuccess(retEnd))]
      /\ UNCHANGED txImpl
      /\ UNCHANGED notTx

DoRollback ==
    \E t \in TxIds, retEnd, retAc, retAm \in ConnRets(conn.dbc) :
      /\ txOf[t] # "none"
      /\ LET o == IF txImpl = 1 THEN Rollback(conn, drv, retEnd, retAc, retAm)
                  ELSE Rollback2(conn, drv, retEnd, retAc, retAm)
         IN /\ conn' = o.conn
            /\ drv' = o.drv
            /\ txOf' = EndLive(o)
            /\ last' = [op |-> "Rollback", tx |-> t, stale |-> (txOf[t] = "ended"),
                        err |-> o.err, calls |-> o.calls,
                        endOk |-> (conn.inTx /\ IsSuccess(retEnd))]
      /\ UNCHANGED txImpl
      /\ UNCHANGED notTx

DoConnClose ==
    /\ LET o == ConnClose(conn, drv)
       IN /\ conn' = o.conn
          /\ drv' = o.drv
          /\ last' = [op |-> "Close", tx |-> 0, stale |-> FALSE,
                      err |-> o.err, calls |-> o.calls, endOk |-> FALSE]
    /\ UNCHANGED <<txImpl, txOf>>
    /\ UNCHANGED notTx

DoResetSession ==
    /\ LET o == ResetSession(conn, drv)
       IN /\ conn' = o.conn
          /\ drv' = o.drv
          /\ last' = [op |-> "ResetSession", tx |-> 0, stale |-> FALSE,
                      err |-> o.err, calls |-> o.calls, endOk |-> FALSE]
    /\ UNCHANGED <<txImpl, txOf>>
    /\ UNCHANGED notTx

TxNext == DoBeginTx \/ DoCommit \/ DoRollback \/ DoConnClose \/ DoResetSession

-----------------------------------------------------------------------------
(* Statements and their parameter bindings, stmt.go.  The driver keeps,    *)
(* per statement handle and parameter position, the addresses it was given *)
(* by BindParameter; the model records for each position whether it is     *)
(* bound and whether the buffer and the length cell it points to are still *)
(* the ones held by the Stmt (paramBuffers, paramLengths).                 *)

maxParameters == 10000

StmtIds == 1..MaxStmt
RowIds == 1..MaxRows
Positions == 1..(IF MaxArgs > MaxPos THEN MaxArgs ELSE MaxPos)

\* argument ordinals a caller passes; SQLUSMALLINT(arg.Ordinal) keeps 16 bits
Ordinals == 0..MaxPos
Uint16(x) == x % 65536

\* argument lists of one call, or of one parameter set of a batch
ArgLists == UNION {[1..k -> Ordinals] : k \in 0..MaxArgs}

\* what a call on a live statement handle can return; where the code tests
\* only IsSuccess, one succeeding and one failing code stand for all
CallRets == {SQL_SUCCESS, SQL_ERROR}
ExecuteRets ==
    {SQL_SUCCESS, SQL_SUCCESS_WITH_INFO, SQL_NO_DATA, SQL_ERROR, SQL_INVALID_HANDLE}

NoBinding == [bound |-> FALSE, buf |-> FALSE, len |-> FALSE]
Unbound == [p \in Positions |-> NoBinding]

NoStmt ==
    [exists |-> FALSE, owner |-> "none", closed |-> FALSE, stmt |-> 0,
     paramBuffers |-> 0, lengthsCap |-> 0, binds |-> Unbound,
     paramsetSize |-> 1, statusPtr |-> FALSE, processedPtr |-> FALSE,
     frees |-> 0, rowFrees |-> 0]

NoRows ==
    [exists |-> FALSE, stmt |-> 0, closed |-> FALSE, closeStmt |-> FALSE,
     direct |-> FALSE, cursorCloses |-> 0]

\* a call that has returned: its name, its object, the error, and whether it
\* took the early return of an already closed object; pre tells that the
\* call's context was cancelled before the call, made which driver functions
\* the call invoked
Returned(name, s, err, again) ==
    [name |-> name, s |-> s, pc |-> "idle", args |-> <<>>, numRows |-> 0,
     row |-> 0, k |-> 0, rowErr |-> FALSE, own |-> FALSE,
     err |-> err, again |-> again, pre |-> FALSE, made |-> {}, exe |-> <<>>]

\* a call in progress at step pc
Running(name, s, pc, args, own) ==
    [name |-> name, s |-> s, pc |-> pc, args |-> args, numRows |-> 0,
     row |-> 0, k |-> 0, rowErr |-> FALSE, own |-> own,
     err |-> "nil", again |-> FALSE, pre |-> FALSE, made |-> {}, exe |-> <<>>]

\* PrepareContext: a fresh handle wrapped in a Stmt with no buffers
NewStmt(owner) ==
    [NoStmt EXCEPT !.exists = TRUE, !.owner = owner, !.stmt = 1]

\* SQLBindParameter: on success the position points to the addresses given
BindParameter(binds, pos, held, ret) ==
    IF IsSuccess(ret) /\ pos \in Positions
    THEN [binds EXCEPT ![pos] = [bound |-> TRUE, buf |-> held, len |-> held]]
    ELSE binds

\* SQLFreeStmt(SQL_RESET_PARAMS): the handle forgets every binding
FreeStmtResetParams(st) == [st EXCEPT !.binds = Unbound]

\* SQLSetStmtAttr(SQL_ATTR_PARAMSET_SIZE)
SetParamsetSize(st, n, ret) ==
    IF IsSuccess(ret) THEN [st EXCEPT !.paramsetSize = n] ELSE st

\* bindParams, before its loop: both slices are made anew with len(args)
\* elements, so what the driver still points to is no longer held
MakeBuffers(st, n) ==
    [st EXCEPT !.paramBuffers = n, !.lengthsCap = n,
               !.binds = [p \in Positions |->
                            IF st.binds[p].bound
                            THEN [bound |-> TRUE, buf |-> FALSE, len |-> FALSE]
                            ELSE NoBinding]]

\* capacity after an append to a full slice (Go doubles small slices)
NewCap(c) == IF c = 0 THEN 1 ELSE 2 * c

\* bindParam's extension loop: an append to a full paramLengths moves the
\* length cells to a new array, and the cells the driver points to are dropped
RECURSIVE Extend(_, _)
Extend(st, idx) ==
    IF st.paramBuffers > idx THEN st
    ELSE LET moved == st.paramBuffers = st.lengthsCap
             st1 == [st EXCEPT
                       !.paramBuffers = @ + 1,
                       !.lengthsCap = IF moved THEN NewCap(@) ELSE @,
                       !.binds = IF moved
                                 THEN [p \in Positions |-> [@[p] EXCEPT !.len = FALSE]]
                                 ELSE @]
         IN Extend(st1, idx)

\* bindParam: range checks, extension, the new buffer replaces the one kept
\* for the position, then BindParameter with the buffer and &paramLengths[idx]
bindParam(st, paramNum, ret) ==
    LET idx == paramNum - 1
    IN IF idx < 0 THEN [st |-> st, err |-> "invalid parameter number", called |-> FALSE]
       ELSE IF idx >= maxParameters
       THEN [st |-> st, err |-> "exceeds maximum", called |-> FALSE]
       ELSE LET st1 == Extend(st, idx)
                st2 == IF paramNum \in Positions
                       THEN [st1 EXCEPT !.binds[paramNum].buf = FALSE]
                       ELSE st1
                st3 == [st2 EXCEPT !.binds = BindParameter(@, paramNum, TRUE, ret)]
            IN [st |-> st3, err |-> IF IsSuccess(ret) THEN "nil" ELSE "Error",
                called |-> TRUE]

\* the error of a failed Execute with the reclassification left out
ExecuteErrorDiagnostic(ctxFired) == "Error"

\* the error of a failed Execute: the context's once the context has fired
ExecuteError(ctxFired) == IF ctxFired THEN "ctx" ELSE "Error"

\* Stmt.Close that frees whatever the statement's state
StmtCloseAlways(st) ==
    [st EXCEPT !.closed = TRUE, !.frees = @ + 1]

\* Stmt.Close
StmtClose(st) ==
    IF st.closed THEN st
    ELSE [st EXCEPT !.closed = TRUE,
                    !.stmt = 0,
                    !.frees = IF st.stmt # 0 THEN @ + 1 ELSE @,
                    !.binds = IF st.stmt # 0 THEN Unbound ELSE @,
                    !.paramsetSize = IF st.stmt # 0 THEN 1 ELSE @,
                    !.statusPtr = IF st.stmt # 0 THEN FALSE ELSE @,
                    !.processedPtr = IF st.stmt # 0 THEN FALSE ELSE @,
                    !.paramBuffers = 0, !.lengthsCap = 0]

\* Rows.Close without its closed check
RowsCloseUnguarded(rw, st) ==
    LET st1 == IF rw.closeStmt THEN StmtClose(st) ELSE st
    IN [rw |-> [rw EXCEPT !.closed = TRUE, !.cursorCloses = @ + 1],
        st |-> [st1 EXCEPT !.rowFrees = @ + (st1.frees - st.frees)]]

\* Rows.Close: the cursor is closed, and the statement too when the iterator
\* owns it; rowFrees counts the handles freed from here
RowsClose(rw, st) ==
    IF rw.closed THEN [rw |-> rw, st |-> st]
    ELSE LET st1 == IF rw.closeStmt THEN StmtClose(st) ELSE st
         IN [rw |-> [rw EXCEPT !.closed = TRUE, !.cursorCloses = @ + 1],
             st |-> [st1 EXCEPT !.rowFrees = @ + (st1.frees - st.frees)]]

-----------------------------------------------------------------------------
(* Statement and iterator calls, one at a time, stepped driver call by     *)
(* driver call.                                                            *)

Idle == op.pc = "idle"

FreeStmtSlot(s) ==
    /\ ~stmts[s].exists
    /\ \A u \in StmtIds : u < s => stmts[u].exists

FreeRowsSlot(r) ==
    /\ ~rws[r].exists
    /\ \A u \in RowIds : u < r => rws[u].exists

BindInit ==
    /\ stmts = [s \in StmtIds |-> NoStmt]
    /\ rws = [r \in RowIds |-> NoRows]
    /\ op = Returned("none", 0, "nil", FALSE)

\* the call returns err; a statement that Conn.ExecContext or a failed
\* Conn.QueryContext prepared for this call is closed on the way out
ReturnAfter(st, err, close, called, exe) ==
    /\ stmts' = [stmts EXCEPT ![op.s] = IF close THEN StmtClose(st) ELSE st]
    /\ op' = [Returned(op.name, op.s, err, FALSE)
                EXCEPT !.pre = op.pre, !.made = op.made \cup called, !.exe = exe]

Return(st, err, close, called) == ReturnAfter(st, err, close, called, op.exe)

\* Conn.PrepareContext
DoPrepare ==
    \E s \in StmtIds, retAlloc, retPrep \in CallRets :
      /\ Idle
      /\ FreeStmtSlot(s)
      /\ IF conn.closed THEN
            /\ op' = Returned("Prepare", 0, "ErrBadConn", FALSE)
            /\ UNCHANGED stmts
         ELSE IF ~IsSuccess(retAlloc) \/ ~IsSuccess(retPrep) THEN
            /\ op' = Returned("Prepare", 0, "Error", FALSE)
            /\ UNCHANGED stmts
         ELSE
            /\ stmts' = [stmts EXCEPT ![s] = NewStmt("caller")]
            /\ op' = Returned("Prepare", s, "nil", FALSE)
      /\ UNCHANGED rws
      /\ UNCHANGED notBind

\* Stmt.ExecContext and Stmt.QueryContext up to the loop of bindParams: the
\* closed check, the query timeout when one is configured, the watcher (whose
\* cancel changes nothing a statement holds), the new slices
StmtBegin ==
    \E s \in StmtIds, name \in {"Exec", "Query"}, args \in ArgLists,
       cancelled, queryTimeout \in BOOLEAN :
      /\ Idle
      /\ stmts[s].exists /\ stmts[s].owner = "caller"
      /\ name = "Query" => \E r \in RowIds : FreeRowsSlot(r)
      /\ IF stmts[s].closed THEN
            /\ op' = [Returned(name, s, "ErrBadConn", TRUE) EXCEPT !.pre = cancelled]
            /\ UNCHANGED stmts
         ELSE
            /\ stmts' = [stmts EXCEPT ![s] = MakeBuffers(@, Len(args))]
            /\ op' = [Running(name, s, "bind", args, FALSE)
                        EXCEPT !.pre = cancelled,
                               !.made = IF queryTimeout THEN {"SetStmtAttr"} ELSE {}]
      /\ UNCHANGED rws
      /\ UNCHANGED notBind

\* Conn.ExecContext and Conn.QueryContext with arguments: PrepareContext,
\* then the statement's call up to the loop of bindParams
ConnBegin ==
    \E s \in StmtIds, name \in {"ConnExec", "ConnQuery"}, args \in ArgLists,
       retAlloc, retPrep \in CallRets :
      /\ Idle
      /\ Len(args) > 0
      /\ FreeStmtSlot(s)
      /\ name = "ConnQuery" => \E r \in RowIds : FreeRowsSlot(r)
      /\ IF conn.closed THEN
            /\ op' = Returned(name, 0, "ErrBadConn", FALSE)
            /\ UNCHANGED stmts
         ELSE IF ~IsSuccess(retAlloc) \/ ~IsSuccess(retPrep) THEN
            /\ op' = Returned(name, 0, "Error", FALSE)
            /\ UNCHANGED stmts
         ELSE
            /\ stmts' = [stmts EXCEPT ![s] = MakeBuffers(NewStmt("conn"), Len(args))]
            /\ op' = Running(name, s, "bind", args, TRUE)
      /\ UNCHANGED rws
      /\ UNCHANGED notBind

\* one turn of the loop of bindParams
BindStep ==
    \E ret \in CallRets :
      /\ op.pc = "bind" /\ op.name \in {"Exec", "Query", "ConnExec", "ConnQuery"}
      /\ op.args # <<>>
      /\ LET paramNum == Uint16(Head(op.args))
             b == bindParam(stmts[op.s], paramNum, ret)
         IN IF paramNum = 0 THEN
               /\ op' = [op EXCEPT !.args = Tail(@)]
               /\ UNCHANGED stmts
            ELSE IF b.err # "nil"
            THEN Return(b.st, b.err, op.own,
                        IF b.called THEN {"BindParameter"} ELSE {})
            ELSE
               /\ stmts' = [stmts EXCEPT ![op.s] = b.st]
               /\ op' = [op EXCEPT !.args = Tail(@),
                                   !.made = @ \cup {"BindParameter"}]
      /\ UNCHANGED rws
      /\ UNCHANGED notBind

\* after bindParams: the context check, Execute, and the rest of ExecContext;
\* QueryContext goes on to newRows
ExecuteStep ==
    \E firedBefore, firedDuring \in BOOLEAN, ret \in ExecuteRets :
      /\ op.pc = "bind" /\ op.name \in {"Exec", "Query", "ConnExec", "ConnQuery"}
      /\ op.args = <<>>
      /\ LET st == stmts[op.s]
             isExec == op.name \in {"Exec", "ConnExec"}
             ok == IsSuccess(ret) \/ (isExec /\ ret = SQL_NO_DATA)
         IN IF op.pre \/ firedBefore THEN Return(st, "ctx", op.own, {})
            ELSE IF ~ok
            THEN ReturnAfter(st, ExecuteError(firedDuring), op.own, {"Execute"}, <<ret>>)
            ELSE IF isExec
            THEN ReturnAfter(FreeStmtResetParams(st), "nil", op.own, {"Execute"}, <<ret>>)
            ELSE /\ op' = [op EXCEPT !.pc = "newRows", !.made = @ \cup {"Execute"},
                                     !.exe = <<ret>>]
                 /\ UNCHANGED stmts
      /\ UNCHANGED rws
      /\ UNCHANGED notBind

\* newRows at the end of QueryContext; Conn.QueryContext then sets closeStmt
NewRowsStep ==
    \E r \in RowIds, retCols \in CallRets :
      /\ op.pc = "newRows"
      /\ FreeRowsSlot(r)
      /\ IF ~IsSuccess(retCols) THEN
            /\ Return(stmts[op.s], "Error", op.own, {})
            /\ UNCHANGED rws
         ELSE
            /\ rws' = [rws EXCEPT ![r] =
                         [NoRows EXCEPT !.exists = TRUE, !.stmt = op.s,
                                        !.closeStmt = op.own,
                                        !.direct = (op.name = "ConnQuery")]]
            /\ Return(stmts[op.s], "nil", FALSE, {})
      /\ UNCHANGED notBind

\* Conn.QueryContext without arguments: ExecDirect on a fresh handle, wrapped
\* in a Stmt for newRows(stmt, true)
ConnQueryDirect ==
    \E s \in StmtIds, r \in RowIds, retAlloc, retExec, retCols \in CallRets :
      /\ Idle
      /\ FreeStmtSlot(s) /\ FreeRowsSlot(r)
      /\ IF conn.closed THEN
            /\ op' = Returned("ConnQuery", 0, "ErrBadConn", FALSE)
            /\ UNCHANGED <<stmts, rws>>
         ELSE IF ~IsSuccess(retAlloc) THEN
            /\ op' = Returned("ConnQuery", 0, "Error", FALSE)
            /\ UNCHANGED <<stmts, rws>>
         ELSE IF ~IsSuccess(retExec) THEN
            /\ op' = Returned("ConnQuery", 0, "Error", FALSE)
            /\ UNCHANGED <<stmts, rws>>
         ELSE IF ~IsSuccess(retCols) THEN
            /\ stmts' = [stmts EXCEPT ![s] = NewStmt("conn")]
            /\ op' = Returned("ConnQuery", s, "Error", FALSE)
            /\ UNCHANGED rws
         ELSE
            /\ stmts' = [stmts EXCEPT ![s] = NewStmt("conn")]
            /\ rws' = [rws EXCEPT ![r] =
                         [NoRows EXCEPT !.exists = TRUE, !.stmt = s,
                                        !.closeStmt = TRUE, !.direct = TRUE]]
            /\ op' = Returned("ConnQuery", s, "nil", FALSE)
      /\ UNCHANGED notBind

\* Stmt.Close by the caller that prepared the statement
DoStmtClose ==
    \E s \in StmtIds :
      /\ Idle
      /\ stmts[s].exists /\ stmts[s].owner = "caller"
      /\ stmts' = [stmts EXCEPT ![s] = StmtClose(@)]
      /\ op' = Returned("StmtClose", s, "nil", stmts[s].closed)
      /\ UNCHANGED rws
      /\ UNCHANGED notBind

\* Rows.Close
DoRowsClose ==
    \E r \in RowIds :
      /\ Idle
      /\ rws[r].exists
      /\ LET s == rws[r].stmt
             o == RowsClose(rws[r], stmts[s])
         IN /\ rws' = [rws EXCEPT ![r] = o.rw]
            /\ stmts' = [stmts EXCEPT ![s] = o.st]
            /\ op' = Returned("RowsClose", r, "nil", rws[r].closed)
      /\ UNCHANGED notBind

\* Rows.Next and Rows.NextResultSet: Fetch or MoreResults on the statement
\* handle; neither changes what the Stmt or the Rows hold
DoRowsNext ==
    \E r \in RowIds, name \in {"Next", "NextResultSet"}, ret \in ExecuteRets :
      /\ Idle
      /\ rws[r].exists
      /\ op' = Returned(name, r,
                        IF name = "Next" /\ rws[r].closed THEN "EOF"
                        ELSE IF ret = SQL_NO_DATA THEN "EOF"
                        ELSE IF ~IsSuccess(ret) THEN "Error" ELSE "nil",
                        name = "Next" /\ rws[r].closed)
      /\ UNCHANGED <<stmts, rws>>
      /\ UNCHANGED notBind

\* Conn.Close between two calls on statements and iterators: the handles
\* of the connection and of the environment are freed and zeroed; no
\* statement of the connection and no iterator is touched
ConnCloseStep ==
    /\ Idle
    /\ conn' = ConnClose(conn, drv).conn
    /\ op' = Returned("ConnClose", 0, "nil", conn.closed)
    /\ UNCHANGED <<txImpl, drv, txOf, last, stmts, rws, mu, thr, wat, cmu, cthr,
                   gd, np, br, pf>>

-----------------------------------------------------------------------------
(* Stmt.ExecBatch: array binding first, row by row when that gives up.     *)
(* The batch has numRows parameter sets; the first set fixes the number of *)
(* parameters, the others are drawn when their turn comes.                 *)

\* execBatchArrayBinding returned false
FallBack(st) ==
    /\ stmts' = [stmts EXCEPT ![op.s] = st]
    /\ op' = [op EXCEPT !.pc = "row", !.row = 1, !.k = 0]

BatchBegin ==
    \E s \in StmtIds, numRows \in 0..MaxSets, first \in ArgLists :
      /\ Idle
      /\ stmts[s].exists /\ stmts[s].owner = "caller"
      /\ IF stmts[s].closed THEN
            op' = Returned("Batch", s, "ErrBadConn", TRUE)
         ELSE IF numRows = 0 THEN
            op' = Returned("Batch", s, "nil", FALSE)
         ELSE
            op' = [Running("Batch", s, IF Len(first) = 0 THEN "row" ELSE "attr",
                           first, FALSE)
                     EXCEPT !.numRows = numRows, !.row = 1, !.k = 1]
      /\ UNCHANGED <<stmts, rws>>
      /\ UNCHANGED notBind

\* the four SetStmtAttr calls: paramset size, bind type, status array,
\* processed-rows cell
BatchAttr ==
    \E ret, retReset \in CallRets :
      /\ op.pc = "attr"
      /\ LET st == stmts[op.s]
             set == CASE op.k = 1 -> SetParamsetSize(st, op.numRows, ret)
                      [] op.k = 3 -> [st EXCEPT !.statusPtr = TRUE]
                      [] op.k = 4 -> [st EXCEPT !.processedPtr = TRUE]
                      [] OTHER -> st
         IN IF ~IsSuccess(ret) THEN
               FallBack(IF op.k = 1 THEN st ELSE SetParamsetSize(st, 1, retReset))
            ELSE
               /\ stmts' = [stmts EXCEPT ![op.s] = set]
               /\ op' = IF op.k < 4 THEN [op EXCEPT !.k = @ + 1]
                        ELSE [op EXCEPT !.pc = "col", !.k = 1]
      /\ UNCHANGED rws
      /\ UNCHANGED notBind

\* one column: its buffer is a local of the call, bound at position k
BatchCol ==
    \E ret, retReset \in CallRets :
      /\ op.pc = "col"
      /\ LET st == stmts[op.s]
         IN IF ~IsSuccess(ret) THEN
               FallBack(FreeStmtResetParams(SetParamsetSize(st, 1, retReset)))
            ELSE
               /\ stmts' = [stmts EXCEPT ![op.s].binds =
                              BindParameter(@, op.k, FALSE, ret)]
               /\ op' = IF op.k < Len(op.args) THEN [op EXCEPT !.k = @ + 1]
                        ELSE [op EXCEPT !.pc = "bexec"]
      /\ UNCHANGED rws
      /\ UNCHANGED notBind

\* Execute of the whole batch, then the reset
BatchExecute ==
    \E ret \in ExecuteRets, retReset \in CallRets :
      /\ op.pc = "bexec"
      /\ Return(FreeStmtResetParams(SetParamsetSize(stmts[op.s], 1, retReset)),
                "nil", FALSE, {})
      /\ UNCHANGED rws
      /\ UNCHANGED notBind

\* execBatchRowByRow, top of the loop: the slices are made anew for the set
RowStart ==
    \E params \in ArgLists :
      /\ op.pc = "row"
      /\ op.row = 1 => params = op.args
      /\ IF op.row > op.numRows THEN Return(stmts[op.s], "nil", FALSE, {})
         ELSE /\ stmts' = [stmts EXCEPT ![op.s] = MakeBuffers(@, Len(params))]
              /\ op' = [op EXCEPT !.pc = "rbind", !.args = params, !.rowErr = FALSE]
      /\ UNCHANGED rws
      /\ UNCHANGED notBind

\* one parameter of the set; an error is noted and the loop goes on
RowBind ==
    \E ret \in CallRets :
      /\ op.pc = "rbind"
      /\ op.args # <<>>
      /\ LET paramNum == Uint16(Head(op.args))
             b == bindParam(stmts[op.s], paramNum, ret)
         IN IF paramNum = 0 THEN
               /\ op' = [op EXCEPT !.args = Tail(@)]
               /\ UNCHANGED stmts
            ELSE
               /\ stmts' = [stmts EXCEPT ![op.s] = b.st]
               /\ op' = [op EXCEPT !.args = Tail(@),
                                   !.rowErr = @ \/ b.err # "nil"]
      /\ UNCHANGED rws
      /\ UNCHANGED notBind

\* Execute of one set, unless binding failed; the reset only after success
RowExecute ==
    \E ret \in ExecuteRets :
      /\ op.pc = "rbind"
      /\ op.args = <<>>
      /\ LET st == stmts[op.s]
             ok == IsSuccess(ret) \/ ret = SQL_NO_DATA
         IN stmts' = [stmts EXCEPT ![op.s] =
                        IF ~op.rowErr /\ ok THEN FreeStmtResetParams(st) ELSE st]
      /\ op' = [op EXCEPT !.pc = "row", !.row = @ + 1]
      /\ UNCHANGED rws
      /\ UNCHANGED notBind

-----------------------------------------------------------------------------
(* One statement and an iterator over it used by several goroutines:       *)
(* s.mu, the context of each call and its watcher goroutine.  The driver   *)
(* calls that can block (Execute, Fetch, MoreResults, CloseCursor) begin   *)
(* in one step and return in another.                                      *)

Goroutines == {"g1", "g2"}

NoWatcher == [pc |-> "none", done |-> FALSE, cancels |-> 0, late |-> FALSE]

\* a driver call of goroutine g is in flight on the statement handle
InFlight(g) == thr[g].pc \in {"execute", "fetch", "more", "ccursor"}

\* a return that leaves the mutex held
FinishLocked(g, err, again) ==
    /\ thr' = [thr EXCEPT ![g].pc = "idle", ![g].err = err, ![g].again = again]
    /\ wat' = IF wat[g].pc = "none" THEN wat ELSE [wat EXCEPT ![g].done = TRUE]
    /\ mu' = mu

\* the call of g returns: done is closed, the mutex released if g holds it
Finish(g, err, again) ==
    /\ thr' = [thr EXCEPT ![g].pc = "idle", ![g].err = err, ![g].again = again]
    /\ wat' = IF wat[g].pc = "none" THEN wat ELSE [wat EXCEPT ![g].done = TRUE]
    /\ mu' = IF mu = g THEN "free" ELSE mu

\* a goroutine calls a method of the statement or of the iterator; for
\* ExecContext and QueryContext the context has no Done channel, is live, or
\* is cancelled already
Call ==
    \E g \in Goroutines,
       name \in {"Exec", "Query", "Close", "Next", "NextResultSet", "RowsClose"},
       ctx \in {"none", "live", "fired"} :
      /\ thr[g].pc = "idle"
      /\ wat[g].pc \in {"none", "exit"}
      /\ name \notin {"Exec", "Query"} => ctx = "none"
      /\ name \in {"Next", "NextResultSet", "RowsClose"} => rws[1].exists
      /\ thr' = [thr EXCEPT ![g] =
                   [pc |-> IF name \in {"Exec", "Query", "Close"} THEN "lock" ELSE "rows",
                    name |-> name, ctx |-> ctx, fired |-> FALSE, err |-> "nil",
                    again |-> FALSE,
                    overlap |-> \E h \in Goroutines \ {g} :
                                   thr[h].name = name /\ thr[h].pc # "idle"]]
      /\ wat' = [wat EXCEPT ![g] = NoWatcher]
      /\ UNCHANGED <<mu, stmts, rws>>
      /\ UNCHANGED notStmt

\* s.mu.Lock() and what follows it up to the context check: ExecContext and
\* QueryContext return on a closed statement, else start the watcher when
\* ctx.Done() is not nil and bind; Close goes on to its body
LockEnter ==
    \E g \in Goroutines :
      /\ thr[g].pc = "lock"
      /\ mu = "free"
      /\ IF thr[g].name = "Close" THEN
            /\ thr' = [thr EXCEPT ![g].pc = "close"]
            /\ mu' = g
            /\ UNCHANGED wat
         ELSE IF stmts[1].closed THEN
            /\ thr' = [thr EXCEPT ![g].pc = "idle", ![g].err = "ErrBadConn",
                                  ![g].again = TRUE]
            /\ UNCHANGED <<mu, wat>>
         ELSE
            /\ thr' = [thr EXCEPT ![g].pc = "check"]
            /\ mu' = g
            /\ wat' = IF thr[g].ctx = "none" THEN wat
                      ELSE [wat EXCEPT ![g].pc = "select"]
      /\ UNCHANGED <<stmts, rws>>
      /\ UNCHANGED notStmt

\* bindParams returns, with an error or not; then ctx.Err() before Execute,
\* then the Execute call begins
Check ==
    \E g \in Goroutines, bindFails \in BOOLEAN :
      /\ thr[g].pc = "check"
      /\ IF bindFails THEN Finish(g, "Error", FALSE)
         ELSE IF thr[g].ctx = "fired" THEN Finish(g, "ctx", FALSE)
         ELSE /\ thr' = [thr EXCEPT ![g].pc = "execute"]
              /\ UNCHANGED <<mu, wat>>
      /\ UNCHANGED <<stmts, rws>>
      /\ UNCHANGED notStmt

\* Execute returns; a failure is reported as the context's error when the
\* context has fired
ExecuteReturn ==
    \E g \in Goroutines, ret \in ExecuteRets :
      /\ thr[g].pc = "execute"
      /\ LET ok == IsSuccess(ret) \/ (thr[g].name = "Exec" /\ ret = SQL_NO_DATA)
         IN Finish(g, IF ok THEN "nil" ELSE ExecuteError(thr[g].ctx = "fired"), FALSE)
      /\ UNCHANGED <<stmts, rws>>
      /\ UNCHANGED notStmt

\* the context of a call is cancelled or its deadline passes
CtxFire ==
    \E g \in Goroutines :
      /\ thr[g].ctx = "live"
      /\ thr[g].pc # "idle" \/ wat[g].pc = "select"
      /\ thr' = [thr EXCEPT ![g].ctx = "fired", ![g].fired = (thr[g].pc = "execute")]
      /\ UNCHANGED <<mu, wat, stmts, rws>>
      /\ UNCHANGED notStmt

\* the watcher's select: a case that is ready is taken, either one when both
\* are
WatchSelect ==
    \E g \in Goroutines, branch \in {"ctx", "done"} :
      /\ wat[g].pc = "select"
      /\ branch = "ctx" => thr[g].ctx = "fired"
      /\ branch = "done" => wat[g].done
      /\ wat' = [wat EXCEPT ![g].pc = IF branch = "ctx" THEN "cancel" ELSE "exit"]
      /\ UNCHANGED <<mu, thr, stmts, rws>>
      /\ UNCHANGED notStmt

\* the watcher's Cancel(s.stmt)
WatchCancel ==
    \E g \in Goroutines :
      /\ wat[g].pc = "cancel"
      /\ wat' = [wat EXCEPT ![g].pc = "exit", ![g].cancels = @ + 1,
                            ![g].late = wat[g].done]
      /\ UNCHANGED <<mu, thr, stmts, rws>>
      /\ UNCHANGED notStmt

\* the body of Stmt.Close, under the mutex
CloseBody ==
    \E g \in Goroutines :
      /\ thr[g].pc = "close"
      /\ stmts' = [stmts EXCEPT ![1] = StmtClose(@)]
      /\ Finish(g, "nil", stmts[1].closed)
      /\ UNCHANGED rws
      /\ UNCHANGED notStmt

\* Rows.Next, Rows.NextResultSet and Rows.Close up to their driver call;
\* none takes a lock
RowsEnter ==
    \E g \in Goroutines :
      /\ thr[g].pc = "rows"
      /\ IF thr[g].name = "NextResultSet" THEN
            thr' = [thr EXCEPT ![g].pc = "more"]
         ELSE IF rws[1].closed THEN
            thr' = [thr EXCEPT ![g].pc = "idle", ![g].again = TRUE,
                    ![g].err = IF thr[g].name = "Next" THEN "EOF" ELSE "nil"]
         ELSE
            thr' = [thr EXCEPT ![g].pc = IF thr[g].name = "Next" THEN "fetch"
                                         ELSE "setclosed"]
      /\ UNCHANGED <<mu, wat, stmts, rws>>
      /\ UNCHANGED notStmt

\* Rows.Close: r.closed = true, then the CloseCursor call begins
RowsSetClosed ==
    \E g \in Goroutines :
      /\ thr[g].pc = "setclosed"
      /\ rws' = [rws EXCEPT ![1].closed = TRUE, ![1].cursorCloses = @ + 1]
      /\ thr' = [thr EXCEPT ![g].pc = "ccursor"]
      /\ UNCHANGED <<mu, wat, stmts>>
      /\ UNCHANGED notStmt

\* Fetch, MoreResults or CloseCursor returns
RowsReturn ==
    \E g \in Goroutines, ret \in ExecuteRets :
      /\ thr[g].pc \in {"fetch", "more", "ccursor"}
      /\ Finish(g, IF thr[g].pc = "ccursor" THEN "nil"
                   ELSE IF ret = SQL_NO_DATA THEN "EOF"
                   ELSE IF IsSuccess(ret) THEN "nil" ELSE "Error", FALSE)
      /\ UNCHANGED <<stmts, rws>>
      /\ UNCHANGED notStmt

-----------------------------------------------------------------------------
(* One connection used by several goroutines: c.mu and the driver calls    *)
(* of Ping, Close, the direct paths of Conn.ExecContext and                *)
(* Conn.QueryContext, and getLastInsertId as Stmt.ExecContext calls it.    *)

ConnIdle ==
    /\ cmu = "free"
    /\ cthr = [g \in Goroutines |-> [pc |-> "idle", name |-> "none", err |-> "nil"]]

\* a driver call of goroutine g is in flight on the connection handle or on
\* a statement handle allocated from it
ConnInFlight(g) == cthr[g].pc \in {"alloc", "execdirect", "disconnect"}

ConnReturn(g, err) ==
    /\ cthr' = [cthr EXCEPT ![g].pc = "idle", ![g].err = err]
    /\ cmu' = IF cmu = g THEN "free" ELSE cmu

ConnCall ==
    \E g \in Goroutines,
       name \in {"Ping", "Close", "ExecContext", "QueryContext", "getLastInsertId"} :
      /\ cthr[g].pc = "idle"
      /\ cthr' = [cthr EXCEPT ![g] =
                    [pc |-> IF name = "getLastInsertId" THEN "alloc" ELSE "lock",
                     name |-> name, err |-> "nil"]]
      /\ UNCHANGED <<cmu, conn>>
      /\ UNCHANGED notConn

\* c.mu.Lock() and the closed check; then AllocHandle, or Disconnect in Close
ConnLock ==
    \E g \in Goroutines :
      /\ cthr[g].pc = "lock"
      /\ cmu = "free"
      /\ IF conn.closed
         THEN /\ cthr' = [cthr EXCEPT ![g].pc = "idle",
                            ![g].err = IF cthr[g].name = "Close" THEN "nil"
                                       ELSE "ErrBadConn"]
              /\ UNCHANGED cmu
         ELSE /\ cthr' = [cthr EXCEPT ![g].pc = IF cthr[g].name = "Close"
                                                THEN "disconnect" ELSE "alloc"]
              /\ cmu' = g
      /\ UNCHANGED conn
      /\ UNCHANGED notConn

\* AllocHandle returns: Conn.ExecContext and Conn.QueryContext unlock before
\* ExecDirect, Ping keeps the mutex, getLastInsertId never took it
ConnAllocReturn ==
    \E g \in Goroutines, ret \in ConnRets(conn.dbc) :
      /\ cthr[g].pc = "alloc"
      /\ IF ~IsSuccess(ret)
         THEN ConnReturn(g, CASE cthr[g].name = "Ping" -> "ErrBadConn"
                              [] cthr[g].name = "getLastInsertId" -> "nil"
                              [] OTHER -> "Error")
         ELSE /\ cthr' = [cthr EXCEPT ![g].pc = "execdirect"]
              /\ cmu' = IF cthr[g].name \in {"ExecContext", "QueryContext"} /\ cmu = g
                        THEN "free" ELSE cmu
      /\ UNCHANGED conn
      /\ UNCHANGED notConn

\* ExecDirect returns and the call ends
ConnDirectReturn ==
    \E g \in Goroutines, ret \in ExecuteRets, connectionError \in BOOLEAN :
      /\ cthr[g].pc = "execdirect"
      /\ LET ok == IsSuccess(ret) \/ (cthr[g].name = "ExecContext" /\ ret = SQL_NO_DATA)
         IN ConnReturn(g, CASE cthr[g].name = "getLastInsertId" -> "nil"
                            [] cthr[g].name = "Ping" ->
                                 IF ~IsSuccess(ret) /\ connectionError
                                 THEN "ErrBadConn" ELSE "nil"
                            [] OTHER -> IF ok THEN "nil" ELSE "Error")
      /\ UNCHANGED conn
      /\ UNCHANGED notConn

\* Disconnect and the FreeHandle calls of Close return
ConnCloseReturn ==
    \E g \in Goroutines :
      /\ cthr[g].pc = "disconnect"
      /\ conn' = ConnClose(conn, drv).conn
      /\ ConnReturn(g, "nil")
      /\ UNCHANGED notConn

-----------------------------------------------------------------------------
(* The two mutexes together: c.mu of the connection and s.mu of a          *)
(* statement, as the methods of Conn, Tx, Stmt and Rows take and release   *)
(* them.  A method is the sequence of its steps: "Lc" and "Ls" are Lock,   *)
(* "Uc" and "Us" Unlock (deferred ones at the return), "call" is the       *)
(* driver calls made in between.  The statement that Conn.ExecContext and  *)
(* Conn.QueryContext prepare is taken for the shared one, which only adds  *)
(* waiting.                                                                *)

notLocks == <<txImpl, conn, drv, txOf, last, stmts, rws, op, thr, wat, gd, np, br, pf>>

LockedMethods ==
    {"Conn.PrepareContext", "Conn.Close", "Conn.BeginTx", "Conn.Ping",
     "Conn.ExecContext", "Conn.ExecContext(args)", "Conn.QueryContext",
     "Conn.QueryContext(args)", "Conn.QueryContext(args) failing",
     "Tx.Commit", "Tx.Rollback", "Stmt.Close", "Stmt.ExecContext",
     "Stmt.QueryContext", "Stmt.ExecBatch", "Rows.Next", "Rows.Close",
     "Rows.Close(closeStmt)"}

\* the steps a method would take if Conn.ExecContext kept c.mu over the
\* statement's call and getLastInsertId took c.mu
MutexStepsNested(name) ==
    CASE name = "Conn.ExecContext(args)" ->
            <<"Lc", "call", "Ls", "call", "Us", "Ls", "call", "Us", "Uc">>
      [] name = "Stmt.ExecContext" -> <<"Ls", "call", "Lc", "call", "Uc", "Us">>
      [] name \in {"Rows.Next", "Rows.Close"} -> <<"call">>
      [] name \in {"Stmt.Close", "Stmt.QueryContext", "Stmt.ExecBatch",
                   "Rows.Close(closeStmt)"} -> <<"Ls", "call", "Us">>
      [] OTHER -> <<"Lc", "call", "Uc">>

\* the steps of each method, in the order of its code
MutexSteps(name) ==
    LET inConn == <<"Lc", "call", "Uc">>
        inStmt == <<"Ls", "call", "Us">>
    IN CASE name \in {"Conn.ExecContext", "Conn.QueryContext"} -> inConn \o <<"call">>
         [] name = "Conn.ExecContext(args)" -> inConn \o inStmt \o inStmt
         [] name = "Conn.QueryContext(args)" -> inConn \o inStmt
         [] name = "Conn.QueryContext(args) failing" -> inConn \o inStmt \o inStmt
         [] name = "Stmt.ExecContext" -> <<"Ls", "call", "call", "Us">>
         [] name \in {"Stmt.Close", "Stmt.QueryContext", "Stmt.ExecBatch"} -> inStmt
         [] name = "Rows.Next" -> <<"call">>
         [] name = "Rows.Close" -> <<"call">>
         [] name = "Rows.Close(closeStmt)" -> <<"call">> \o inStmt
         [] OTHER -> inConn

LocksInit ==
    /\ cmu = "free"
    /\ cthr = [g \in Goroutines |->
                 [pc |-> "idle", name |-> "none", err |-> "nil", todo |-> <<>>]]

\* the mutexes goroutine g holds
Held(g) == {m \in {"c", "s"} : (m = "c" /\ cmu = g) \/ (m = "s" /\ mu = g)}

\* g is at a Lock
AtLock(g) == cthr[g].pc = "run" /\ Head(cthr[g].todo) \in {"Lc", "Ls"}

\* g can take its next step: a Lock needs the mutex free
CanStep(g) ==
    /\ cthr[g].pc = "run"
    /\ Head(cthr[g].todo) = "Lc" => cmu = "free"
    /\ Head(cthr[g].todo) = "Ls" => mu = "free"

\* what is left after the step at the head
Advance(g) ==
    cthr' = [cthr EXCEPT ![g].todo = Tail(@),
                         ![g].pc = IF Len(cthr[g].todo) = 1 THEN "idle" ELSE "run"]

LockCall ==
    \E g \in Goroutines, name \in LockedMethods :
      /\ cthr[g].pc = "idle"
      /\ cthr' = [cthr EXCEPT ![g] = [pc |-> "run", name |-> name, err |-> "nil",
                                       todo |-> MutexSteps(name)]]
      /\ UNCHANGED <<mu, cmu>>
      /\ UNCHANGED notLocks

\* Lock returns: the mutex was free and is now held by g
LockTake ==
    \E g \in Goroutines :
      /\ AtLock(g)
      /\ CanStep(g)
      /\ IF Head(cthr[g].todo) = "Lc" THEN cmu' = g /\ UNCHANGED mu
                                       ELSE mu' = g /\ UNCHANGED cmu
      /\ Advance(g)
      /\ UNCHANGED notLocks

\* Unlock
LockGive ==
    \E g \in Goroutines :
      /\ cthr[g].pc = "run"
      /\ Head(cthr[g].todo) \in {"Uc", "Us"}
      /\ IF Head(cthr[g].todo) = "Uc" THEN cmu' = "free" /\ UNCHANGED mu
                                       ELSE mu' = "free" /\ UNCHANGED cmu
      /\ Advance(g)
      /\ UNCHANGED notLocks

\* the driver calls between two mutex operations return
LockDriverCalls ==
    \E g \in Goroutines :
      /\ cthr[g].pc = "run"
      /\ Head(cthr[g].todo) = "call"
      /\ Advance(g)
      /\ UNCHANGED <<mu, cmu>>
      /\ UNCHANGED notLocks

-----------------------------------------------------------------------------
(* Chunked retrieval of one column value, rows.go: getString, getBytes and *)
(* getWideString against a driver that follows the get-data protocol.      *)
(* Lengths are in elements: bytes for narrow and binary columns, UTF-16    *)
(* code units for wide ones; buffer lengths and indicators are in bytes.   *)

minBufSize == 256
maxBufSize == 65536
maxWideBufSize == 32768

Kinds == {"narrow", "wide", "binary"}
ColSizes == {0, 299}

ElemSize(kind) == IF kind = "wide" THEN 2 ELSE 1

Min(a, b) == IF a < b THEN a ELSE b

\* the column value held by the driver: no zero in character data, and in
\* wide data a surrogate pair across the end of the first chunk
Data(kind, n) ==
    [i \in 1..n |->
       CASE kind = "binary" -> (i - 1) % 251
         [] kind = "wide" /\ i = minBufSize - 1 -> 55357
         [] kind = "wide" /\ i = minBufSize -> 56832
         [] kind = "wide" /\ i % 97 = 0 -> 8364
         [] OTHER -> ((i - 1) % 251) + 1]

\* SQLGetData: the next piece that fits in bufLen bytes, a terminator after
\* character data, the length that was still remaining as indicator, and
\* SQL_SUCCESS_WITH_INFO when not all of it fitted
GetData(kind, data, off, buf, bufLen) ==
    LET term == IF kind = "binary" THEN 0 ELSE 1
        rem == Len(data) - off
        room == (bufLen \div ElemSize(kind)) - term
        n == Min(rem, room)
    IN IF rem = 0 /\ off > 0
       THEN [ret |-> SQL_NO_DATA, indicator |-> 0, off |-> off, buf |-> buf]
       ELSE [ret |-> IF rem > room THEN SQL_SUCCESS_WITH_INFO ELSE SQL_SUCCESS,
             indicator |-> rem * ElemSize(kind),
             off |-> off + n,
             buf |-> [i \in 1..Len(buf) |->
                        IF i <= n THEN data[off + i]
                        ELSE IF i = n + 1 /\ term = 1 THEN 0 ELSE buf[i]]]

\* the initial buffer, in elements
bufSize(kind, colSize) ==
    LET b == IF kind = "binary" THEN colSize ELSE colSize + 1
        top == IF kind = "wide" THEN maxWideBufSize ELSE maxBufSize
    IN IF b < minBufSize THEN minBufSize ELSE IF b > top THEN top ELSE b

\* what of a buffer of n elements holds data: all but the terminator
Useful(kind, n) == IF kind = "binary" THEN n ELSE n - 1

\* the elements taken from a chunk, terminator included
copyLenWithTerminator(kind, indicated, chunkSize) == Min(indicated, chunkSize)

\* the elements taken from a chunk
copyLen(kind, indicated, chunkSize) == Min(indicated, Useful(kind, chunkSize))

\* string(rune): the UTF-8 bytes of one code point; a lone surrogate becomes
\* U+FFFD
Utf8(r) ==
    IF r < 128 THEN <<r>>
    ELSE IF r < 2048 THEN <<192 + (r \div 64), 128 + (r % 64)>>
    ELSE IF r >= 55296 /\ r <= 57343 THEN <<239, 191, 189>>
    ELSE IF r < 65536
    THEN <<224 + (r \div 4096), 128 + ((r \div 64) % 64), 128 + (r % 64)>>
    ELSE <<240 + (r \div 262144), 128 + ((r \div 4096) % 64),
           128 + ((r \div 64) % 64), 128 + (r % 64)>>

IsPair(a, b) == a >= 55296 /\ a <= 56319 /\ b >= 56320 /\ b <= 57343

\* utf16ToString on u[lo..hi]: a high surrogate followed by a low one is one
\* code point, every other unit is one by itself.  The loop's left-to-right
\* result is computed by halves, cutting where no pair is split.
RECURSIVE utf16ToString(_, _, _)
utf16ToString(u, lo, hi) ==
    IF lo > hi THEN <<>>
    ELSE IF lo = hi THEN Utf8(u[lo])
    ELSE IF hi = lo + 1 /\ IsPair(u[lo], u[hi])
    THEN Utf8((u[lo] - 55296) * 1024 + (u[hi] - 56320) + 65536)
    ELSE LET mid == (lo + hi) \div 2
             cut == IF ~IsPair(u[mid], u[mid + 1]) THEN mid
                    ELSE IF mid + 1 < hi THEN mid + 1 ELSE mid - 1
         IN utf16ToString(u, lo, cut) \o utf16ToString(u, cut + 1, hi)

\* the value handed to the caller
Deliver(kind, elems) ==
    IF kind = "wide" THEN utf16ToString(elems, 1, Len(elems)) ELSE elems

\* the part of buf before its first zero, all of it when there is none
UpToZero(buf) ==
    LET zeros == {i \in 1..Len(buf) : buf[i] = 0}
    IN IF zeros = {} THEN buf
       ELSE SubSeq(buf, 1, (CHOOSE i \in zeros : \A j \in zeros : i <= j) - 1)

GetInit ==
    \E kind \in Kinds, colSize \in ColSizes, n \in 0..MaxLen :
      gd = [kind |-> kind, colSize |-> colSize, len |-> n, pc |-> "start",
            buf |-> <<>>, off |-> 0, result |-> <<>>, remaining |-> 0,
            loops |-> 0, value |-> <<>>]

\* the first GetData with the whole buffer, and what follows when the value
\* fitted
GetFirst ==
    /\ gd.pc = "start"
    /\ LET kind == gd.kind
           size == bufSize(kind, gd.colSize)
           e == ElemSize(kind)
           g == GetData(kind, Data(kind, gd.len), 0, [i \in 1..size |-> 0], size * e)
           useful == Useful(kind, size)
       IN IF g.ret = SQL_SUCCESS_WITH_INFO /\ g.indicator > useful * e
          THEN LET result == SubSeq(g.buf, 1, useful)
                   remaining == (g.indicator \div e) - useful
               IN gd' = [gd EXCEPT
                           !.buf = g.buf, !.off = g.off, !.result = result,
                           !.remaining = remaining,
                           !.pc = IF remaining > 0 THEN "loop" ELSE "done",
                           !.value = IF remaining > 0 THEN @
                                     ELSE Deliver(kind, result)]
          ELSE gd' = [gd EXCEPT
                        !.pc = "done", !.buf = g.buf, !.off = g.off,
                        !.value =
                           CASE kind = "narrow" ->
                                  IF g.indicator >= 0 /\ g.indicator < size
                                  THEN SubSeq(g.buf, 1, g.indicator)
                                  ELSE UpToZero(g.buf)
                             [] kind = "binary" ->
                                  IF g.indicator >= 0 /\ g.indicator <= size
                                  THEN SubSeq(g.buf, 1, g.indicator)
                                  ELSE g.buf
                             [] OTHER ->
                                  IF g.indicator >= 0
                                  THEN Deliver(kind, SubSeq(g.buf, 1,
                                         Min(g.indicator \div e, size - 1)))
                                  ELSE Deliver(kind, UpToZero(g.buf))]
    /\ UNCHANGED notGet

\* one turn of the truncation loop; the value is delivered when the loop ends
GetChunk ==
    /\ gd.pc = "loop"
    /\ LET kind == gd.kind
           e == ElemSize(kind)
           size == Len(gd.buf)
           chunkSize == Min(IF kind = "binary" THEN gd.remaining
                            ELSE gd.remaining + 1, size)
           g == GetData(kind, Data(kind, gd.len), gd.off, gd.buf, chunkSize * e)
           stop == ~IsSuccess(g.ret) \/ g.ret = SQL_NO_DATA
           n == copyLen(kind, g.indicator \div e, chunkSize)
           result == IF stop THEN gd.result ELSE gd.result \o SubSeq(g.buf, 1, n)
           remaining == IF stop THEN gd.remaining ELSE gd.remaining - n
       IN gd' = [gd EXCEPT !.buf = g.buf, !.off = g.off, !.result = result,
                           !.remaining = remaining, !.loops = @ + 1,
                           !.pc = IF stop \/ remaining <= 0 THEN "done" ELSE "loop",
                           !.value = IF stop \/ remaining <= 0
                                     THEN Deliver(kind, result) ELSE @]
    /\ UNCHANGED notGet

-----------------------------------------------------------------------------
(* Rows.Next on a row of character and binary columns, against a driver    *)
(* that may return any code and any indicator from each call.  Values are  *)
(* followed by their lengths only.                                         *)

\* indicators a get-data call may leave: SQL_NULL_DATA, another negative
\* value, and lengths in bytes below, at and above the buffer sizes
Indicators == {SQL_NULL_DATA, -4, 0, 2, 255, 256, 512, 600, 1300}

NextIdle(pc) ==
    [kind |-> "narrow", colSize |-> 0, pc |-> pc, col |-> 1,
     size |-> 0, remaining |-> 0, resultLen |-> 0, loops |-> 0,
     err |-> "nil", failedAt |-> "none", failedCol |-> 0,
     dest |-> [c \in 1..MaxCols |-> "unset"]]

\* Next returns err
NextReturn(err, failedAt) ==
    gd' = [gd EXCEPT !.pc = "done", !.err = err, !.failedAt = failedAt,
                     !.failedCol = IF failedAt = "first" THEN gd.col ELSE @]

\* getColumnData has returned val for column gd.col without error: dest is
\* assigned and the column loop goes on
NextDeliver(val, failedAt, loops) ==
    gd' = [gd EXCEPT !.dest[gd.col] = val, !.failedAt = failedAt, !.loops = loops,
                     !.failedCol = IF failedAt = "loop" /\ gd.failedAt = "none"
                                   THEN gd.col ELSE @,
                     !.col = @ + 1,
                     !.pc = IF gd.col = MaxCols THEN "done" ELSE "first"]

NextCall ==
    /\ gd.pc = "done"
    /\ gd' = NextIdle("fetch")
    /\ UNCHANGED notGet

NextFetch ==
    \E ret \in ExecuteRets :
      /\ gd.pc = "fetch"
      /\ IF ret = SQL_NO_DATA THEN NextReturn("EOF", "none")
         ELSE IF ~IsSuccess(ret) THEN NextReturn("Error", "fetch")
         ELSE gd' = [gd EXCEPT !.pc = "first"]
      /\ UNCHANGED notGet

\* the first get-data call of getString, getBytes or getWideString for the
\* column, and what follows it up to the truncation loop
NextFirst ==
    \E kind \in Kinds, colSize \in ColSizes, ret \in ExecuteRets,
       indicator \in Indicators :
      /\ gd.pc = "first"
      /\ LET size == bufSize(kind, colSize)
             e == ElemSize(kind)
             useful == Useful(kind, size)
             remaining == (indicator \div e) - useful
         IN IF ~IsSuccess(ret) THEN NextReturn("Error", "first")
            ELSE IF indicator = SQL_NULL_DATA THEN NextDeliver("null", gd.failedAt, 0)
            ELSE IF ret = SQL_SUCCESS_WITH_INFO /\ indicator > useful * e
            THEN IF remaining > 0
                 THEN gd' = [gd EXCEPT !.pc = "loop", !.kind = kind,
                                       !.colSize = colSize, !.size = size,
                                       !.resultLen = useful,
                                       !.remaining = remaining, !.loops = 0]
                 ELSE NextDeliver("value", gd.failedAt, 0)
            ELSE NextDeliver("value", gd.failedAt, 0)
      /\ UNCHANGED notGet

\* one turn of the truncation loop: a failing call or SQL_NO_DATA or a null
\* indicator ends the loop, and what was assembled is returned without error;
\* a negative length is a slice bound out of range
NextChunk ==
    \E ret \in ExecuteRets, indicator \in Indicators :
      /\ gd.pc = "loop"
      /\ gd.loops < MaxLoops
      /\ LET kind == gd.kind
             e == ElemSize(kind)
             chunkSize == Min(IF kind = "binary" THEN gd.remaining
                              ELSE gd.remaining + 1, gd.size)
             n == copyLen(kind, indicator \div e, chunkSize)
         IN IF ~IsSuccess(ret)
            THEN NextDeliver("value", IF ret = SQL_NO_DATA THEN gd.failedAt ELSE "loop",
                             gd.loops + 1)
            ELSE IF indicator = SQL_NULL_DATA
            THEN NextDeliver("value", gd.failedAt, gd.loops + 1)
            ELSE IF n < 0
            THEN gd' = [gd EXCEPT !.pc = "done", !.err = "panic", !.loops = @ + 1]
            ELSE IF gd.remaining - n > 0
            THEN gd' = [gd EXCEPT !.resultLen = @ + n, !.remaining = @ - n,
                                  !.loops = @ + 1]
            ELSE NextDeliver("value", gd.failedAt, gd.loops + 1)
      /\ UNCHANGED notGet

-----------------------------------------------------------------------------
(* ParseNamedParams: SQL text is a sequence of characters, NL the newline. *)

Letters == {"a", "b"}
Digits == {"1"}
Sigils == {":", "@", "$"}

isIdentStart(c) == c \in Letters
isIdentChar(c) == isIdentStart(c) \/ c \in Digits

\* the pieces SQL texts are put together from
Pieces ==
    {<<":", "a">>, <<"@", "b">>, <<"$", "a">>, <<"?">>, <<"'">>, <<"\"">>,
     <<"-", "-">>, <<"/", "*">>, <<"*", "/">>, <<"NL">>, <<"a">>, <<"1">>, <<"/">>}

RECURSIVE Flatten(_)
Flatten(ps) == IF ps = <<>> THEN <<>> ELSE Head(ps) \o Flatten(Tail(ps))

Queries == {Flatten(ps) : ps \in UNION {[1..k -> Pieces] : k \in 0..MaxQuery}}

\* the result nil
NoNamedParams == [nil |-> TRUE, Query |-> <<>>, Names |-> <<>>, Positions |-> <<>>]

\* the quick scan: a sigil followed by an identifier start, anywhere
hasNamed(query) ==
    \E i \in 1..Len(query) :
       query[i] \in Sigils /\ i + 1 <= Len(query) /\ isIdentStart(query[i + 1])

\* the loop over a quoted literal or identifier from i, past the opening
\* quote: a doubled quote is skipped, the index after the closing one returned
RECURSIVE SkipQuoted(_, _, _)
SkipQuoted(query, i, quote) ==
    IF i > Len(query) THEN i
    ELSE IF query[i] = quote
    THEN IF i + 1 <= Len(query) /\ query[i + 1] = quote
         THEN SkipQuoted(query, i + 2, quote)
         ELSE i + 1
    ELSE SkipQuoted(query, i + 1, quote)

\* a -- comment that runs to the end of the text
SkipLineToEnd(query, i) == Len(query) + 1

\* the loop over a -- comment: up to the newline
RECURSIVE SkipLine(_, _)
SkipLine(query, i) ==
    IF i <= Len(query) /\ query[i] # "NL" THEN SkipLine(query, i + 1) ELSE i

\* the loop over a block comment from i, past its opening: it looks at pairs,
\* so it ends on the last character when the comment is not closed
RECURSIVE SkipBlock(_, _)
SkipBlock(query, i) ==
    IF i + 1 <= Len(query)
    THEN IF query[i] = "*" /\ query[i + 1] = "/" THEN i + 2
         ELSE SkipBlock(query, i + 1)
    ELSE i

\* the end of a name that starts at i
RECURSIVE NameEnd(_, _)
NameEnd(query, end) ==
    IF end <= Len(query) /\ isIdentChar(query[end]) THEN NameEnd(query, end + 1)
    ELSE end

\* Positions[name] = append(Positions[name], position)
AppendPosition(positions, name, position) ==
    [n \in DOMAIN positions \cup {name} |->
       IF n = name
       THEN (IF n \in DOMAIN positions THEN positions[n] ELSE <<>>) \o <<position>>
       ELSE positions[n]]

AppendName(names, name) ==
    IF \E k \in 1..Len(names) : names[k] = name THEN names ELSE Append(names, name)

\* the main loop from index i
RECURSIVE ParseLoop(_, _, _, _, _, _)
ParseLoop(query, i, output, position, names, positions) ==
    IF i > Len(query)
    THEN [Query |-> output, Names |-> names, Positions |-> positions]
    ELSE LET c == query[i]
             next == IF i + 1 <= Len(query) THEN query[i + 1] ELSE "none"
         IN IF c = "'" \/ c = "\""
            THEN LET j == SkipQuoted(query, i + 1, c)
                 IN ParseLoop(query, j, output \o SubSeq(query, i, j - 1),
                              position, names, positions)
            ELSE IF c = "-" /\ next = "-"
            THEN LET j == SkipLine(query, i)
                 IN ParseLoop(query, j, output \o SubSeq(query, i, j - 1),
                              position, names, positions)
            ELSE IF c = "/" /\ next = "*"
            THEN LET j == SkipBlock(query, i + 2)
                 IN ParseLoop(query, j, output \o SubSeq(query, i, j - 1),
                              position, names, positions)
            ELSE IF c \in Sigils /\ isIdentStart(next)
            THEN LET end == NameEnd(query, i + 1)
                     name == SubSeq(query, i + 1, end - 1)
                 IN ParseLoop(query, end, Append(output, "?"), position + 1,
                              AppendName(names, name),
                              AppendPosition(positions, name, position + 1))
            ELSE ParseLoop(query, i + 1, Append(output, c), position, names, positions)

ParseNamedParams(query) ==
    IF Len(query) = 0 \/ ~hasNamed(query) THEN NoNamedParams
    ELSE LET r == ParseLoop(query, 1, <<>>, 0, <<>>, <<>>)
         IN IF Len(r.Names) = 0 THEN NoNamedParams
            ELSE [nil |-> FALSE, Query |-> r.Query, Names |-> r.Names,
                  Positions |-> r.Positions]

ParseIdle == np = [pc |-> "parsed", query |-> <<>>, parsed |-> NoNamedParams]

ParseInit ==
    \E query \in Queries : np = [pc |-> "start", query |-> query, parsed |-> NoNamedParams]

Parse ==
    /\ np.pc = "start"
    /\ np' = [np EXCEPT !.pc = "parsed", !.parsed = ParseNamedParams(np.query)]
    /\ UNCHANGED notNamed

-----------------------------------------------------------------------------
(* Preparing SQL text (Conn.PrepareContext, Conn.PrepareWithCursor) and    *)
(* the choice bindParams makes on the statement that results.              *)

PrepareInit ==
    \E query \in Queries :
       np = [pc |-> "start", query |-> query, sent |-> <<>>,
             namedParams |-> NoNamedParams, byName |-> FALSE, err |-> "nil"]

\* the handle is allocated, the query text is given to the driver's Prepare
\* as it is, and the Stmt is made without a namedParams field
PrepareText ==
    \E closed \in BOOLEAN, retAlloc, retPrepare \in CallRets :
      /\ np.pc = "start"
      /\ np' = IF closed THEN [np EXCEPT !.pc = "failed", !.err = "ErrBadConn"]
               ELSE IF ~IsSuccess(retAlloc) THEN [np EXCEPT !.pc = "failed", !.err = "Error"]
               ELSE IF ~IsSuccess(retPrepare)
               THEN [np EXCEPT !.pc = "failed", !.err = "Error", !.sent = np.query]
               ELSE [np EXCEPT !.pc = "prepared", !.sent = np.query,
                               !.namedParams = NoNamedParams]
      /\ UNCHANGED notNamed

\* bindParams on the prepared statement: by name when s.namedParams is set
PreparedBind ==
    /\ np.pc = "prepared"
    /\ np' = [np EXCEPT !.pc = "bound", !.byName = ~np.namedParams.nil]
    /\ UNCHANGED notNamed

-----------------------------------------------------------------------------
(* bindNamedParams on a statement that has a named-parameter table.        *)

NamedTables ==
    {ParseNamedParams(Flatten(ps)) :
        ps \in UNION {[1..k -> {<<":", "a">>, <<"@", "b">>}] : k \in 1..MaxPos}}

\* arguments: named ones, and ordinal ones with an empty name
NamedValues ==
    [Name : {<<"a">>, <<"b">>}, Ordinal : {0}, Value : {"v1", "v2"}]
      \cup [Name : {<<>>}, Ordinal : 0..2, Value : {"v1", "v2"}]

NamedArgLists == UNION {[1..k -> NamedValues] : k \in 0..MaxArgs}

\* the orders in which a range over a map can visit its keys
Orders(S) == {f \in [1..Cardinality(S) -> S] : \A n \in S : \E k \in DOMAIN f : f[k] = n}

\* the loop that computes totalPositions, the map visited in this order
RECURSIVE TotalPositions(_, _, _)
TotalPositions(positions, order, totalPositions) ==
    IF order = <<>> THEN totalPositions
    ELSE LET p == positions[Head(order)]
         IN TotalPositions(positions, Tail(order),
                           IF Len(p) > totalPositions THEN p[Len(p)] ELSE totalPositions)

\* valueByName and valueByOrdinal: the last argument of a key is the one kept
Last(S) == CHOOSE k \in S : \A j \in S : j <= k
valueByName(args) ==
    LET named == {args[k].Name : k \in {j \in DOMAIN args : args[j].Name # <<>>}}
    IN [n \in named |-> args[Last({k \in DOMAIN args : args[k].Name = n})].Value]
valueByOrdinal(args) ==
    LET at == {k \in DOMAIN args : args[k].Name = <<>> /\ args[k].Ordinal > 0}
    IN [o \in {args[k].Ordinal : k \in at} |->
          args[Last({k \in at : args[k].Ordinal = o})].Value]

\* the ordinal an argument for the name found at index idx of Names carries,
\* with the index taken for the ordinal
OrdinalOfIndex(idx) == idx

\* the ordinal an argument for the name found at index idx of Names carries
OrdinalOf(idx) == idx + 1

\* the value looked up for a name: by name first, then by the ordinal of its
\* place in Names; ok tells whether one was found
Lookup(table, args, name) ==
    LET byName == valueByName(args)
        byOrdinal == valueByOrdinal(args)
        idx == (CHOOSE k \in 1..Len(table.Names) : table.Names[k] = name) - 1
    IN IF name \in DOMAIN byName THEN [ok |-> TRUE, value |-> byName[name]]
       ELSE IF OrdinalOf(idx) \in DOMAIN byOrdinal
       THEN [ok |-> TRUE, value |-> byOrdinal[OrdinalOf(idx)]]
       ELSE [ok |-> FALSE, value |-> "none"]

NamedInit ==
    \E table \in NamedTables, args \in NamedArgLists :
       np = [pc |-> "start", table |-> table, args |-> args,
             st |-> NewStmt("caller"), todo |-> {}, cur |-> <<>>, value |-> "none",
             at |-> [p \in Positions |-> "none"], err |-> "nil", failed |-> FALSE]

\* up to the loop over the names: the buffers are made for totalPositions
NamedBegin ==
    \E order \in Orders(DOMAIN np.table.Positions) :
      /\ np.pc = "start"
      /\ np' = [np EXCEPT
                  !.pc = "names",
                  !.st = MakeBuffers(@, TotalPositions(np.table.Positions, order, 0)),
                  !.todo = DOMAIN np.table.Positions]
      /\ UNCHANGED notNamed

\* the range over Positions takes a next name, in no fixed order
NamedPick ==
    /\ np.pc = "names"
    /\ IF np.todo = {} THEN np' = [np EXCEPT !.pc = "done"]
       ELSE \E name \in np.todo :
              LET v == Lookup(np.table, np.args, name)
              IN np' = IF ~v.ok THEN [np EXCEPT !.pc = "done", !.err = "ParameterError"]
                       ELSE [np EXCEPT !.pc = "positions", !.todo = @ \ {name},
                                       !.cur = np.table.Positions[name],
                                       !.value = v.value]
    /\ UNCHANGED notNamed

\* bindParam for the next position of the name
NamedBindPos ==
    \E ret \in CallRets :
      /\ np.pc = "positions"
      /\ IF np.cur = <<>> THEN np' = [np EXCEPT !.pc = "names"]
         ELSE LET pos == Uint16(Head(np.cur))
                  b == bindParam(np.st, pos, ret)
              IN np' = IF b.err # "nil"
                       THEN [np EXCEPT !.pc = "done", !.err = b.err, !.st = b.st,
                                       !.failed = TRUE]
                       ELSE [np EXCEPT !.cur = Tail(@), !.st = b.st,
                                       !.at[pos] = np.value]
      /\ UNCHANGED notNamed

-----------------------------------------------------------------------------
(* The BatchResult of execBatchArrayBinding: what is made of the return    *)
(* code of Execute, the status array the driver filled and the row count.  *)

ParamStatuses ==
    {SQL_PARAM_SUCCESS, SQL_PARAM_SUCCESS_WITH_INFO, SQL_PARAM_ERROR,
     SQL_PARAM_UNUSED, SQL_PARAM_DIAG_UNAVAILABLE}

\* what RowCount can leave in totalRowCount: -1 when the driver has no count
RowCountValues == {-1, 0, 1, 2, 5}

NoBatchResult(numRows) ==
    [RowCounts |-> [i \in 1..numRows |-> 0], Errors |-> [i \in 1..numRows |-> FALSE],
     TotalRowsAffected |-> 0]

\* the switch over the status array, then the adjustment to the average
DistributeRowCounts(numRows, statusArray, totalRowCount) ==
    LET counted(i) == statusArray[i] \notin {SQL_PARAM_ERROR, SQL_PARAM_UNUSED}
        successCount == Cardinality({i \in 1..numRows : counted(i)})
        Errors == [i \in 1..numRows |-> statusArray[i] = SQL_PARAM_ERROR]
        RowCounts == [i \in 1..numRows |-> IF counted(i) THEN 1 ELSE 0]
        avgPerRow == totalRowCount \div successCount
    IN [RowCounts |->
          IF successCount > 0 /\ totalRowCount > 0
          THEN [i \in 1..numRows |->
                  IF ~Errors[i] /\ RowCounts[i] > 0 THEN avgPerRow ELSE RowCounts[i]]
          ELSE RowCounts,
        Errors |-> Errors,
        TotalRowsAffected |-> totalRowCount]

\* the result after Execute has returned ret
BatchResultOf(numRows, ret, statusArray, totalRowCount) ==
    IF IsSuccess(ret) THEN DistributeRowCounts(numRows, statusArray, totalRowCount)
    ELSE IF ret = SQL_NO_DATA THEN NoBatchResult(numRows)
    ELSE [NoBatchResult(numRows) EXCEPT !.Errors = [i \in 1..numRows |-> TRUE]]

\* the row-by-row fallback: a set whose bind or Execute fails gets its error,
\* every other set gets what RowCount reports, added to the total
RowByRowResult(numRows, failed, rowCount) ==
    [RowCounts |-> [i \in 1..numRows |-> IF failed[i] THEN 0 ELSE rowCount[i]],
     Errors |-> failed,
     TotalRowsAffected |->
        LET RECURSIVE total(_)
            total(i) == IF i = 0 THEN 0
                        ELSE total(i - 1) + (IF failed[i] THEN 0 ELSE rowCount[i])
        IN total(numRows)]

ResultIdle ==
    br = [pc |-> "done", numRows |-> 0, ret |-> SQL_SUCCESS, statusArray |-> <<>>,
          result |-> NoBatchResult(0)]

ResultInit ==
    \E numRows \in 1..MaxSets :
       br = [pc |-> "execute", numRows |-> numRows, ret |-> SQL_SUCCESS,
             statusArray |-> [i \in 1..numRows |-> SQL_PARAM_SUCCESS],
             result |-> NoBatchResult(numRows)]

\* Execute returns with the status array filled, RowCount is asked, and the
\* results are processed
BatchProcess ==
    \E ret \in ExecuteRets, statusArray \in [1..br.numRows -> ParamStatuses],
       totalRowCount \in RowCountValues :
      /\ br.pc = "execute"
      /\ br' = [br EXCEPT !.pc = "done", !.ret = ret, !.statusArray = statusArray,
                          !.result = BatchResultOf(br.numRows, ret, statusArray,
                                                   totalRowCount)]
      /\ UNCHANGED notResult

\* execBatchRowByRow over all the parameter sets
RowByRowProcess ==
    \E failed \in [1..br.numRows -> BOOLEAN],
       rowCount \in [1..br.numRows -> RowCountValues] :
      /\ br.pc = "execute"
      /\ br' = [br EXCEPT !.pc = "rowdone",
                          !.result = RowByRowResult(br.numRows, failed, rowCount)]
      /\ UNCHANGED notResult

-----------------------------------------------------------------------------
(* Errors made from diagnostic records, and their classification.  A       *)
(* SQLState is the sequence of its five characters.                        *)

SQLStateConnectionFailure == <<"0", "8", "0", "0", "1">>
SQLStateConnectionError == <<"0", "8", "S", "0", "1">>
SQLStateDataTruncation == <<"0", "1", "0", "0", "4">>
SQLStateDeadlock == <<"4", "0", "0", "0", "1">>
SQLStateTransactionFailed == <<"4", "0", "0", "0", "3">>
SQLStateGeneralError == <<"H", "Y", "0", "0", "0">>
SQLStateTimeout == <<"H", "Y", "T", "0", "0">>
SQLStateConnectionTimeout == <<"H", "Y", "T", "0", "1">>

\* the states the driver's diagnostic records carry here
SQLStates ==
    {SQLStateConnectionFailure, SQLStateConnectionError, SQLStateDataTruncation,
     SQLStateDeadlock, SQLStateTransactionFailed, SQLStateGeneralError,
     SQLStateTimeout, SQLStateConnectionTimeout,
     <<"0", "8", "0", "0", "3">>, <<"0", "1", "S", "0", "2">>,
     <<"4", "0", "0", "0", "2">>, <<"4", "2", "0", "0", "0">>,
     <<"8", "0", "0", "0", "1">>}

NilError == [type |-> "nil", SQLState |-> <<>>, rest |-> <<>>]

\* NewError over the records GetDiagRecords returned: none gives a general
\* error, one an *Error, several an Errors value
NewErrorOf(records) ==
    IF records = <<>>
    THEN [type |-> "*Error", SQLState |-> SQLStateGeneralError, rest |-> <<>>]
    ELSE IF Len(records) = 1
    THEN [type |-> "*Error", SQLState |-> records[1], rest |-> <<>>]
    ELSE [type |-> "Errors", SQLState |-> records[1], rest |-> Tail(records)]

IsConnectionError(err) ==
    /\ err.type \in {"*Error", "Errors"}
    /\ Len(err.SQLState) >= 2
    /\ SubSeq(err.SQLState, 1, 2) = <<"0", "8">>

IsDataTruncation(err) ==
    err.type = "*Error" /\ err.SQLState = SQLStateDataTruncation

IsRetryable(err) ==
    /\ err.type \in {"*Error", "Errors"}
    /\ err.SQLState # <<>>
    /\ \/ err.SQLState \in {SQLStateConnectionFailure, SQLStateConnectionError,
                            SQLStateDeadlock, SQLStateTimeout,
                            SQLStateConnectionTimeout, SQLStateTransactionFailed}
       \/ Len(err.SQLState) >= 2 /\ SubSeq(err.SQLState, 1, 2) = <<"0", "8">>

PureIdle == pf = [pc |-> "idle"]

ClassifyInit ==
    \E records \in {<<>>} \cup {<<a>> : a \in SQLStates}
                   \cup {<<a, b>> : a, b \in SQLStates},
       isNil \in BOOLEAN :
      /\ isNil => records = <<>>
      /\ pf = [pc |-> "call", records |-> records,
               err |-> IF isNil THEN NilError ELSE NewErrorOf(records),
               connection |-> FALSE, truncation |-> FALSE, retryable |-> FALSE]

\* the three classifications of the error
Classify ==
    /\ pf.pc = "call"
    /\ pf' = [pf EXCEPT !.pc = "done",
                        !.connection = IsConnectionError(pf.err),
                        !.truncation = IsDataTruncation(pf.err),
                        !.retryable = IsRetryable(pf.err)]
    /\ UNCHANGED notPure

-----------------------------------------------------------------------------
(* isValidDecimalString, on strings as sequences of characters *)

DecimalDigits == {"0", "1", "2", "3", "4", "5", "6", "7", "8", "9"}

\* the characters the strings tried are made of
DecimalChars == {"+", "-", ".", "0", "9", "e"}

DecimalStrings == UNION {[1..n -> DecimalChars] : n \in 0..MaxDecimal}

\* the loop from index i (1-based) on
RECURSIVE DecimalScan(_, _, _, _)
DecimalScan(s, i, hasDigit, hasDot) ==
    IF i > Len(s) THEN hasDigit
    ELSE IF s[i] \in DecimalDigits THEN DecimalScan(s, i + 1, TRUE, hasDot)
    ELSE IF s[i] = "." THEN (IF hasDot THEN FALSE
                             ELSE DecimalScan(s, i + 1, hasDigit, TRUE))
    ELSE FALSE

isValidDecimalStringUnsigned(s) ==
    IF Len(s) = 0 THEN FALSE ELSE DecimalScan(s, 1, FALSE, FALSE)

isValidDecimalString(s) ==
    IF Len(s) = 0 THEN FALSE
    ELSE LET start == IF s[1] = "-" \/ s[1] = "+" THEN 1 ELSE 0
         IN IF start >= Len(s) THEN FALSE
            ELSE DecimalScan(s, start + 1, FALSE, FALSE)

DecimalInit ==
    \E s \in DecimalStrings : pf = [pc |-> "call", s |-> s, valid |-> FALSE]

Validate ==
    /\ pf.pc = "call"
    /\ pf' = [pf EXCEPT !.pc = "done", !.valid = isValidDecimalString(pf.s)]
    /\ UNCHANGED notPure

-----------------------------------------------------------------------------
(* truncateFraction: the nanoseconds of a timestamp cut to a precision *)

TimestampPrecisionSeconds == 0
TimestampPrecisionMilliseconds == 3
TimestampPrecisionMicroseconds == 6
TimestampPrecisionNanoseconds == 9

\* precisions tried: the four named ones and one that is none of them
Precisions == {0, 2, 3, 6, 9}

\* nanosecond values tried: every mix of these milli-, micro- and nanosecond
\* digits, from 0 to 999999999
FractionParts == {0, 1, 499, 500, 999}
Nanos == {ms * 1000000 + us * 1000 + ns : ms, us, ns \in FractionParts}

\* the conversion of an int to SQLUINTEGER: a value from 0 to 2^31 - 1 is kept,
\* and time.Time never has a nanosecond field outside 0..999999999
Uint32(n) == IF n >= 0 THEN n ELSE n + 2147483647 + 2147483647 + 2

truncateFractionRounded(nanos, precision) ==
    CASE precision = TimestampPrecisionSeconds -> Uint32(((nanos + 500000000) \div 1000000000) * 1000000000)
      [] precision = TimestampPrecisionMicroseconds -> Uint32(((nanos + 500) \div 1000) * 1000)
      [] precision = TimestampPrecisionNanoseconds -> Uint32(nanos)
      [] OTHER -> Uint32(((nanos + 500000) \div 1000000) * 1000000)

truncateFraction(nanos, precision) ==
    CASE precision = TimestampPrecisionSeconds -> 0
      [] precision = TimestampPrecisionMilliseconds -> Uint32((nanos \div 1000000) * 1000000)
      [] precision = TimestampPrecisionMicroseconds -> Uint32((nanos \div 1000) * 1000)
      [] precision = TimestampPrecisionNanoseconds -> Uint32(nanos)
      [] OTHER -> Uint32((nanos \div 1000000) * 1000000)

FractionInit ==
    \E nanos \in Nanos, precision \in Precisions :
       pf = [pc |-> "call", nanos |-> nanos, precision |-> precision, fraction |-> 0]

Truncate ==
    /\ pf.pc = "call"
    /\ pf' = [pf EXCEPT !.pc = "done",
                        !.fraction = truncateFraction(pf.nanos, pf.precision)]
    /\ UNCHANGED notPure

-----------------------------------------------------------------------------
(* stringToUTF16 and back.  The string is given as []rune(s) makes it: the *)
(* sequence of its Unicode scalars.                                        *)

\* scalars tried: around every edge of the planes and of the 10-bit halves
Scalars ==
    {65, 55295, 57344, 65535,
     65536, 65537, 66559, 66560, 128512, 1048575, 1048576, 1113088, 1114111}

RuneStrings == UNION {[1..n -> Scalars] : n \in 1..MaxRunes}

\* the code units of one rune, the offset 0x10000 taken off or not
UnitsOf(r, offset) ==
    IF r > 65535
    THEN <<Uint16(((r - offset) \div 1024) + 55296), Uint16(((r - offset) % 1024) + 56320)>>
    ELSE <<Uint16(r)>>

RECURSIVE EncodeRunes(_, _)
EncodeRunes(runes, offset) ==
    IF runes = <<>> THEN <<>>
    ELSE UnitsOf(Head(runes), offset) \o EncodeRunes(Tail(runes), offset)

stringToUTF16NoOffset(runes) == EncodeRunes(runes, 0) \o <<0>>

\* the units of every rune, then the null terminator
stringToUTF16(runes) == EncodeRunes(runes, 65536) \o <<0>>

Utf16Init ==
    \E runes \in RuneStrings :
       pf = [pc |-> "call", runes |-> runes, units |-> <<>>, decoded |-> <<>>]

Encode ==
    /\ pf.pc = "call"
    /\ pf' = [pf EXCEPT !.pc = "encoded", !.units = stringToUTF16(pf.runes)]
    /\ UNCHANGED notPure

\* the units before the terminator, read back
Decode ==
    /\ pf.pc = "encoded"
    /\ pf' = [pf EXCEPT !.pc = "done",
                        !.decoded = utf16ToString(UpToZero(pf.units), 1,
                                                  Len(UpToZero(pf.units)))]
    /\ UNCHANGED notPure

-----------------------------------------------------------------------------
(* ParseGUID and SQL_GUID_STRUCT.String, on strings as sequences of        *)
(* characters.  A uint32 is kept as its two 16-bit halves, high one first. *)

hexDigits == <<"0", "1", "2", "3", "4", "5", "6", "7", "8", "9",
               "A", "B", "C", "D", "E", "F">>
lowerHex == <<"0", "1", "2", "3", "4", "5", "6", "7", "8", "9",
              "a", "b", "c", "d", "e", "f">>

\* the hex digits a GUID string is written with, both cases
GuidAlphabet == lowerHex \o SubSeq(hexDigits, 11, 16)

\* the value of a hex digit, -1 for any other character
HexVal(c) ==
    IF \E v \in 1..16 : hexDigits[v] = c \/ lowerHex[v] = c
    THEN (CHOOSE v \in 1..16 : hexDigits[v] = c \/ lowerHex[v] = c) - 1
    ELSE -1

\* hex.DecodeString: the bytes, or <<-1>> for an odd length or a character
\* that is no hex digit
DecodeString(s) ==
    IF Len(s) % 2 = 1 \/ \E i \in 1..Len(s) : HexVal(s[i]) = -1 THEN <<-1>>
    ELSE [i \in 1..(Len(s) \div 2) |-> 16 * HexVal(s[2 * i - 1]) + HexVal(s[2 * i])]

NoGuid == [i \in 1..16 |-> 0]

\* the bytes in the order of the string
GuidUnswapped(b) == b

\* Data1, Data2 and Data3 byte-reversed, Data4 as it is
GuidSwapped(b) ==
    <<b[4], b[3], b[2], b[1], b[6], b[5], b[8], b[7]>> \o SubSeq(b, 9, 16)

ParseGUID(s) ==
    LET hex == SelectSeq(s, LAMBDA c : c # "-")
    IN IF Len(hex) # 32 THEN [g |-> NoGuid, err |-> "invalid GUID length"]
       ELSE IF DecodeString(hex) = <<-1>> THEN [g |-> NoGuid, err |-> "invalid GUID hex"]
       ELSE [g |-> GuidSwapped(DecodeString(hex)), err |-> "nil"]

\* the structure the 16 bytes are in memory, its integer fields little-endian
\* as ParseGUID lays them out
GuidStruct(g) ==
    [Data1 |-> <<g[4] * 256 + g[3], g[2] * 256 + g[1]>>,
     Data2 |-> <<g[6] * 256 + g[5]>>,
     Data3 |-> <<g[8] * 256 + g[7]>>,
     Data4 |-> SubSeq(g, 9, 16)]

\* the hex digits of 16-bit halves, high half first, every digit kept
RECURSIVE AllHex(_)
AllHex(halves) ==
    IF halves = <<>> THEN <<>>
    ELSE LET v == Head(halves)
         IN <<hexDigits[(v \div 4096) + 1], hexDigits[((v \div 256) % 16) + 1],
              hexDigits[((v \div 16) % 16) + 1], hexDigits[(v % 16) + 1]>>
            \o AllHex(Tail(halves))

\* formatHex: the digits of the value without leading zeros, "0" for zero,
\* padded with zeros on the left up to width
formatHex(val, width) ==
    LET all == AllHex(val)
        nonzero == {i \in 1..Len(all) : all[i] # "0"}
        first == IF nonzero = {} THEN Len(all)
                 ELSE CHOOSE i \in nonzero : \A j \in nonzero : i <= j
        digits == SubSeq(all, first, Len(all))
    IN [i \in 1..(IF width > Len(digits) THEN width - Len(digits) ELSE 0) |-> "0"]
       \o digits

\* %08X-%04X-%04X-%02X%02X-%02X%02X%02X%02X%02X%02X
GuidString(g) ==
    formatHex(g.Data1, 8) \o <<"-">> \o formatHex(g.Data2, 4) \o <<"-">>
    \o formatHex(g.Data3, 4) \o <<"-">>
    \o formatHex(<<g.Data4[1]>>, 2) \o formatHex(<<g.Data4[2]>>, 2) \o <<"-">>
    \o formatHex(<<g.Data4[3]>>, 2) \o formatHex(<<g.Data4[4]>>, 2)
    \o formatHex(<<g.Data4[5]>>, 2) \o formatHex(<<g.Data4[6]>>, 2)
    \o formatHex(<<g.Data4[7]>>, 2) \o formatHex(<<g.Data4[8]>>, 2)

\* 8-4-4-4-12 with the i-th hex digit being digit(i)
Canonical(digit(_)) ==
    [i \in 1..8 |-> digit(i)] \o <<"-">> \o [i \in 1..4 |-> digit(8 + i)] \o <<"-">>
    \o [i \in 1..4 |-> digit(12 + i)] \o <<"-">> \o [i \in 1..4 |-> digit(16 + i)]
    \o <<"-">> \o [i \in 1..12 |-> digit(20 + i)]

\* the strings tried: canonical ones whose digits run through the alphabet
\* from b in steps of a, and each of them one character short or with a
\* character that is no hex digit
GuidStrings ==
    LET run(a, b) == Canonical(LAMBDA i : GuidAlphabet[((a * i + b) % 22) + 1])
    IN UNION {{run(a, b), SubSeq(run(a, b), 1, 35), <<"g">> \o Tail(run(a, b))} :
              a \in {0, 1, 3, 5, 7}, b \in 0..21}

GuidInit ==
    \E s \in GuidStrings :
       pf = [pc |-> "call", s |-> s, g |-> NoGuid, err |-> "nil", text |-> <<>>]

GuidParse ==
    /\ pf.pc = "call"
    /\ LET parsed == ParseGUID(pf.s)
       IN pf' = [pf EXCEPT !.pc = IF parsed.err = "nil" THEN "parsed" ELSE "done",
                           !.g = parsed.g, !.err = parsed.err]
    /\ UNCHANGED notPure

GuidFormat ==
    /\ pf.pc = "parsed"
    /\ pf' = [pf EXCEPT !.pc = "done", !.text = GuidString(GuidStruct(pf.g))]
    /\ UNCHANGED notPure

-----------------------------------------------------------------------------
(* The native type of a column's values: what ColumnTypeScanType reports   *)
(* and what getColumnData delivers.                                        *)

SQL_UNKNOWN_TYPE == 0
SQL_CHAR == 1
SQL_NUMERIC == 2
SQL_DECIMAL == 3
SQL_INTEGER == 4
SQL_SMALLINT == 5
SQL_FLOAT == 6
SQL_REAL == 7
SQL_DOUBLE == 8
SQL_DATETIME == 9
SQL_VARCHAR == 12
SQL_TYPE_DATE == 91
SQL_TYPE_TIME == 92
SQL_TYPE_TIMESTAMP == 93
SQL_LONGVARCHAR == -1
SQL_BINARY == -2
SQL_VARBINARY == -3
SQL_LONGVARBINARY == -4
SQL_BIGINT == -5
SQL_TINYINT == -6
SQL_BIT == -7
SQL_WCHAR == -8
SQL_WVARCHAR == -9
SQL_WLONGVARCHAR == -10
SQL_GUID == -11

\* the SQL types DescribeCol reports here: the named ones and two others
ColTypes == (-11..9) \cup {12, 91, 92, 93, 101}

ColumnTypeScanType(colType) ==
    CASE colType = SQL_BIT -> "bool"
      [] colType \in {SQL_TINYINT, SQL_SMALLINT, SQL_INTEGER, SQL_BIGINT} -> "int64"
      [] colType = SQL_REAL -> "float32"
      [] colType \in {SQL_FLOAT, SQL_DOUBLE} -> "float64"
      [] colType \in {SQL_NUMERIC, SQL_DECIMAL} -> "string"
      [] colType \in {SQL_CHAR, SQL_VARCHAR, SQL_LONGVARCHAR,
                      SQL_WCHAR, SQL_WVARCHAR, SQL_WLONGVARCHAR} -> "string"
      [] colType \in {SQL_BINARY, SQL_VARBINARY, SQL_LONGVARBINARY} -> "[]byte"
      [] colType \in {SQL_TYPE_DATE, SQL_TYPE_TIME, SQL_TYPE_TIMESTAMP,
                      SQL_DATETIME} -> "time.Time"
      [] OTHER -> "interface{}"

\* the type of the value the getter chosen by getColumnData returns when the
\* call succeeds and the value is not null
getColumnDataType(colType) ==
    CASE colType = SQL_BIT -> "bool"
      [] colType \in {SQL_TINYINT, SQL_SMALLINT, SQL_INTEGER, SQL_BIGINT} -> "int64"
      [] colType = SQL_REAL -> "float64"
      [] colType \in {SQL_FLOAT, SQL_DOUBLE} -> "float64"
      [] colType \in {SQL_NUMERIC, SQL_DECIMAL} -> "string"
      [] colType \in {SQL_CHAR, SQL_VARCHAR, SQL_LONGVARCHAR} -> "string"
      [] colType \in {SQL_WCHAR, SQL_WVARCHAR, SQL_WLONGVARCHAR} -> "string"
      [] colType \in {SQL_BINARY, SQL_VARBINARY, SQL_LONGVARBINARY} -> "[]byte"
      [] colType \in {SQL_TYPE_DATE, SQL_TYPE_TIME, SQL_TYPE_TIMESTAMP,
                      SQL_DATETIME} -> "time.Time"
      [] colType = SQL_GUID -> "string"
      [] OTHER -> "string"

ScanInit ==
    \E colTypes \in UNION {[1..n -> ColTypes] : n \in 1..MaxCols} :
       pf = [pc |-> "types", colTypes |-> colTypes, scan |-> <<>>, dest |-> <<>>]

\* ColumnTypeScanType for the next column
ScanType ==
    /\ pf.pc = "types"
    /\ LET index == Len(pf.scan) + 1
           scan == Append(pf.scan, ColumnTypeScanType(pf.colTypes[index]))
       IN pf' = [pf EXCEPT !.scan = scan,
                           !.pc = IF Len(scan) = Len(pf.colTypes) THEN "next"
                                  ELSE "types"]
    /\ UNCHANGED notPure

\* Rows.Next filling dest for the next column, the value null or not
ScanValue ==
    \E isNull \in BOOLEAN :
      /\ pf.pc = "next"
      /\ LET colNum == Len(pf.dest) + 1
             dest == Append(pf.dest, IF isNull THEN "nil"
                                     ELSE getColumnDataType(pf.colTypes[colNum]))
         IN pf' = [pf EXCEPT !.dest = dest,
                             !.pc = IF Len(dest) = Len(pf.colTypes) THEN "done"
                                    ELSE "next"]
      /\ UNCHANGED notPure

-----------------------------------------------------------------------------
(* The handles a call allocates and what it does with them when it fails:  *)
(* Connector.Connect, Conn.PrepareContext and the direct paths of          *)
(* Conn.ExecContext and Conn.QueryContext, one driver call at a time.      *)

HandleKinds == {"env", "dbc", "stmt"}

\* no call yet, no handle
NoHandles ==
    [pc |-> "idle", name |-> "none", err |-> "nil",
     h |-> [k \in HandleKinds |-> "none"], frees |-> [k \in HandleKinds |-> 0],
     mine |-> {}, onFreed |-> {}, order |-> FALSE, handed |-> 0, leaked |-> 0]

HandlesInit == pf = NoHandles

\* AllocHandle succeeded: the call owns a live handle of kind k
HandleAlloc(p, k) == [p EXCEPT !.h[k] = "live", !.mine = @ \cup {k}]

\* a driver call on the handle of kind k, NewError's SQLGetDiagRec among them
HandleUse(p, k) ==
    [p EXCEPT !.onFreed = IF p.h[k] = "freed" THEN @ \cup {k} ELSE @]

\* FreeHandle: a driver call on the handle, after which it is freed; order
\* notes a parent freed while a handle allocated from it is live
HandleFree(p, k) ==
    LET child == IF k = "env" THEN "dbc" ELSE "stmt"
    IN [HandleUse(p, k) EXCEPT !.h[k] = "freed", !.frees[k] = @ + 1,
                                !.order = @ \/ (k # "stmt" /\ p.h[child] = "live")]

HandleReturn(p, err) == pf' = [p EXCEPT !.pc = "idle", !.err = err]

\* Connector.Connect is called where no connection is open
ConnectCall ==
    /\ pf.pc = "idle"
    /\ pf.h["dbc"] # "live"
    /\ pf' = [NoHandles EXCEPT !.pc = "allocenv", !.name = "Connect"]
    /\ UNCHANGED notPure

\* AllocHandle(SQL_HANDLE_ENV)
ConnectAllocEnv ==
    \E ret \in CallRets :
      /\ pf.pc = "allocenv"
      /\ IF ~IsSuccess(ret) THEN HandleReturn(pf, "Error")
         ELSE pf' = [HandleAlloc(pf, "env") EXCEPT !.pc = "setenvattr"]
      /\ UNCHANGED notPure

\* SetEnvAttr: on failure the environment is freed and then NewError reads
\* its diagnostics
ConnectSetEnvAttr ==
    \E ret \in CallRets :
      /\ pf.pc = "setenvattr"
      /\ IF ~IsSuccess(ret)
         THEN HandleReturn(HandleUse(HandleFree(pf, "env"), "env"), "Error")
         ELSE pf' = [HandleUse(pf, "env") EXCEPT !.pc = "allocdbc"]
      /\ UNCHANGED notPure

\* AllocHandle(SQL_HANDLE_DBC)
ConnectAllocDbc ==
    \E ret \in CallRets :
      /\ pf.pc = "allocdbc"
      /\ IF ~IsSuccess(ret)
         THEN HandleReturn(HandleFree(HandleUse(pf, "env"), "env"), "Error")
         ELSE pf' = [HandleAlloc(pf, "dbc") EXCEPT !.pc = "driverconnect"]
      /\ UNCHANGED notPure

\* DriverConnect; on success the Conn holds both handles
ConnectDriverConnect ==
    \E ret \in CallRets :
      /\ pf.pc = "driverconnect"
      /\ IF ~IsSuccess(ret)
         THEN HandleReturn(HandleFree(HandleFree(HandleUse(pf, "dbc"), "dbc"), "env"),
                           "Error")
         ELSE HandleReturn(HandleUse(pf, "dbc"), "nil")
      /\ UNCHANGED notPure

\* PrepareContext, or ExecContext or QueryContext without arguments, on the
\* open connection; the statement of an earlier call is its caller's
HandleOpCall ==
    \E name \in {"PrepareContext", "ExecContext", "QueryContext"} :
      /\ pf.pc = "idle"
      /\ pf.h["dbc"] = "live"
      /\ pf.handed < MaxHanded /\ pf.leaked < MaxLeaked
      /\ pf' = [pf EXCEPT !.pc = "allocstmt", !.name = name, !.err = "nil",
                          !.h["stmt"] = "none", !.frees["stmt"] = 0, !.mine = {}]
      /\ UNCHANGED notPure

\* AllocHandle(SQL_HANDLE_STMT)
HandleAllocStmt ==
    \E ret \in CallRets :
      /\ pf.pc = "allocstmt"
      /\ IF ~IsSuccess(ret) THEN HandleReturn(HandleUse(pf, "dbc"), "Error")
         ELSE pf' = [HandleAlloc(pf, "stmt") EXCEPT
                       !.pc = IF pf.name = "PrepareContext" THEN "prepare"
                              ELSE "execdirect"]
      /\ UNCHANGED notPure

\* Prepare; on success the Stmt holds the handle
HandlePrepare ==
    \E ret \in CallRets :
      /\ pf.pc = "prepare"
      /\ IF ~IsSuccess(ret)
         THEN HandleReturn(HandleFree(HandleUse(pf, "stmt"), "stmt"), "Error")
         ELSE HandleReturn([HandleUse(pf, "stmt") EXCEPT !.handed = @ + 1], "nil")
      /\ UNCHANGED notPure

\* ExecDirect: ExecContext frees the handle by defer on every return,
\* QueryContext frees it on failure and goes on to newRows
HandleExecDirect ==
    \E ret \in ExecuteRets :
      /\ pf.pc = "execdirect"
      /\ LET used == HandleUse(pf, "stmt")
         IN IF pf.name = "ExecContext"
            THEN HandleReturn(HandleFree(used, "stmt"),
                              IF IsSuccess(ret) \/ ret = SQL_NO_DATA THEN "nil"
                              ELSE "Error")
            ELSE IF ~IsSuccess(ret) THEN HandleReturn(HandleFree(used, "stmt"), "Error")
            ELSE pf' = [used EXCEPT !.pc = "newrows"]
      /\ UNCHANGED notPure

\* newRows(stmt, true): NumResultCols and DescribeCol; on failure the error
\* is returned as it is and nothing holds the handle any more, on success
\* the Rows hold it
HandleNewRows ==
    \E ret \in CallRets :
      /\ pf.pc = "newrows"
      /\ IF IsSuccess(ret)
         THEN HandleReturn([HandleUse(pf, "stmt") EXCEPT !.handed = @ + 1], "nil")
         ELSE HandleReturn([HandleUse(pf, "stmt") EXCEPT !.leaked = @ + 1], "Error")
      /\ UNCHANGED notPure

\* the caller closes a statement or an iterator it was handed, which frees
\* that handle
HandedClose ==
    /\ pf.pc = "idle"
    /\ pf.handed > 0
    /\ pf' = [pf EXCEPT !.handed = @ - 1, !.name = "Close", !.err = "nil", !.mine = {}]
    /\ UNCHANGED notPure

-----------------------------------------------------------------------------
(* AllocateColumnArray: the values of one parameter over the rows of a     *)
(* batch packed into one buffer of equal strides with a length/indicator   *)
(* array.  A value is its Go type, its size (bytes of a []byte, UTF-16     *)
(* code units of a string) and the length of its fmt.Sprintf("%v") text.   *)

NilValue == [kind |-> "nil", size |-> 0, text |-> 0]

\* the element size of the types packed as they are
FixedSize(kind) ==
    CASE kind = "bool" -> 1
      [] kind \in {"int32", "float32"} -> 4
      [] kind = "time.Time" -> 16
      [] OTHER -> 8

ColumnValues ==
    {NilValue}
    \cup {[kind |-> k, size |-> FixedSize(k), text |-> 1] :
            k \in {"bool", "int64", "int32", "float64", "float32", "time.Time"}}
    \cup {[kind |-> "string", size |-> n, text |-> n] : n \in {0, 3, 300}}
    \cup {[kind |-> "[]byte", size |-> n, text |-> 2 * n + 1] : n \in {0, 3, 300}}
    \cup {[kind |-> "other", size |-> n, text |-> n] : n \in {5, 300}}

Columns == UNION {[1..n -> ColumnValues] : n \in 0..MaxBatchRows}

\* the first value that is not nil, NilValue when there is none
RECURSIVE typeHint(_)
typeHint(values) ==
    IF values = <<>> THEN NilValue
    ELSE IF Head(values) # NilValue THEN Head(values)
    ELSE typeHint(Tail(values))

\* the largest size among the values of the kind, 255 when that is 0
MaxSize(values, kind) ==
    LET sizes == {values[i].size : i \in {j \in 1..Len(values) : values[j].kind = kind}}
        top == IF sizes = {} THEN 0 ELSE CHOOSE n \in sizes : \A k \in sizes : k <= n
    IN IF top = 0 THEN 255 ELSE top

\* the stride of the buffer
ColumnElemSize(values) ==
    LET hint == typeHint(values).kind
    IN CASE hint = "nil" -> 256
         [] hint = "string" -> (MaxSize(values, "string") + 1) * 2
         [] hint = "[]byte" -> MaxSize(values, "[]byte")
         [] hint = "other" -> 256
         [] OTHER -> FixedSize(hint)

\* Lengths[i] for the value of row i in a column of the hinted kind: a value
\* of another type is skipped by the type assertions of most cases
ColumnLength(hint, v) ==
    IF v = NilValue THEN SQL_NULL_DATA
    ELSE CASE hint \in {"bool", "int64", "float64"} -> FixedSize(hint)
           [] hint \in {"int32", "float32", "time.Time"} ->
                IF v.kind = hint THEN FixedSize(hint) ELSE 0
           [] hint = "string" -> IF v.kind = "string" THEN v.size * 2 ELSE 0
           [] hint = "[]byte" -> IF v.kind = "[]byte" THEN v.size ELSE 0
           [] OTHER -> v.text

\* the bytes written for row i (from 0), as offsets [lo, hi) into the data:
\* the element itself, the UTF-16 units with the terminator, or what copy
\* takes, which stops at the end of the data only
ColumnExtent(hint, v, i, elemSize, dataLen) ==
    LET lo == i * elemSize
        want == CASE v = NilValue -> 0
                  [] hint = "string" -> IF v.kind = "string" THEN (v.size + 1) * 2 ELSE 0
                  [] hint = "[]byte" -> IF v.kind = "[]byte" THEN v.size ELSE 0
                  [] hint = "other" -> v.text
                  [] OTHER -> IF hint \in {"bool", "int64", "float64"} \/ v.kind = hint
                              THEN elemSize ELSE 0
    IN [lo |-> lo, hi |-> lo + Min(want, dataLen - lo)]

NoColumnBuffer == [nil |-> TRUE, Lengths |-> <<>>, ElemSize |-> 0, extents |-> <<>>]

AllocateColumnArray(values, numRows) ==
    IF numRows = 0 THEN NoColumnBuffer
    ELSE LET hint == typeHint(values).kind
             elemSize == ColumnElemSize(values)
         IN [nil |-> FALSE,
             Lengths |-> [i \in 1..numRows |-> ColumnLength(hint, values[i])],
             ElemSize |-> elemSize,
             extents |-> [i \in 1..numRows |->
                            ColumnExtent(hint, values[i], i - 1, elemSize,
                                         numRows * elemSize)]]

ColumnInit ==
    \E values \in Columns : pf = [pc |-> "values", values |-> values, buf |-> NoColumnBuffer]

Pack ==
    /\ pf.pc = "values"
    /\ pf' = [pf EXCEPT !.pc = "packed",
                        !.buf = AllocateColumnArray(pf.values, Len(pf.values))]
    /\ UNCHANGED notPure

-----------------------------------------------------------------------------
(* Result sets of one statement: HasNextResultSet and NextResultSet over   *)
(* the driver's MoreResults.                                               *)

\* SQLMoreResults on a statement with n result sets, the current one being
\* cur: a successful call discards the current set and makes the next one
\* current, with SQL_SUCCESS or SQL_SUCCESS_WITH_INFO; with none left it
\* returns SQL_NO_DATA; a failing call moves nothing
MoreResults(cur, n, ret) ==
    IF ~IsSuccess(ret) THEN [cur |-> cur, ret |-> SQL_ERROR]
    ELSE IF cur < n THEN [cur |-> cur + 1, ret |-> ret]
    ELSE [cur |-> cur, ret |-> SQL_NO_DATA]

MoreResultsRets == {SQL_SUCCESS, SQL_SUCCESS_WITH_INFO, SQL_ERROR}

SetsInit ==
    \E n \in 1..MaxResults :
       pf = [pc |-> "has", n |-> n, cur |-> 1, delivered |-> <<1>>,
             before |-> 1, has |-> FALSE, err |-> "nil"]

\* HasNextResultSet: MoreResults, and whether it returned SQL_SUCCESS
HasNextResultSet ==
    \E ret \in MoreResultsRets :
      /\ pf.pc = "has"
      /\ LET m == MoreResults(pf.cur, pf.n, ret)
         IN pf' = [pf EXCEPT !.pc = IF m.ret = SQL_SUCCESS THEN "next" ELSE "done",
                             !.before = pf.cur, !.cur = m.cur,
                             !.has = (m.ret = SQL_SUCCESS)]
      /\ UNCHANGED notPure

\* NextResultSet, called when HasNextResultSet said yes: MoreResults, then the
\* columns of the set that is now current
NextResultSet ==
    \E ret \in MoreResultsRets, colsFail \in BOOLEAN :
      /\ pf.pc = "next"
      /\ LET m == MoreResults(pf.cur, pf.n, ret)
         IN pf' = IF m.ret = SQL_NO_DATA
                  THEN [pf EXCEPT !.pc = "done", !.err = "EOF"]
                  ELSE IF ~IsSuccess(m.ret) \/ colsFail
                  THEN [pf EXCEPT !.pc = "done", !.err = "Error", !.cur = m.cur]
                  ELSE [pf EXCEPT !.pc = "has", !.cur = m.cur,
                                  !.delivered = Append(@, m.cur)]
      /\ UNCHANGED notPure

-----------------------------------------------------------------------------
(* Specifications *)

\* the connection outside any call, for the specifications of other parts
GetIdle ==
    gd = [kind |-> "narrow", colSize |-> 0, len |-> 0, pc |-> "done",
          buf |-> <<>>, off |-> 0, result |-> <<>>, remaining |-> 0,
          loops |-> 0, value |-> <<>>]

StmtIdle ==
    /\ mu = "free"
    /\ thr = [g \in Goroutines |->
                [pc |-> "idle", name |-> "none", ctx |-> "none", fired |-> FALSE,
                 err |-> "nil", again |-> FALSE, overlap |-> FALSE]]
    /\ wat = [g \in Goroutines |-> NoWatcher]

TxIdle ==
    /\ txImpl = 2
    /\ conn = [inTx |-> FALSE, closed |-> FALSE, dbc |-> 1, env |-> 1]
    /\ drv = [autocommit |-> SQL_AUTOCOMMIT_ON, accessMode |-> SQL_MODE_READ_WRITE,
              isolation |-> SQL_TXN_READ_COMMITTED]
    /\ txOf = [t \in TxIds |-> "none"]
    /\ last = [op |-> "none", tx |-> 0, stale |-> FALSE, err |-> "nil", calls |-> <<>>,
               endOk |-> FALSE]

\* connection and transactions
Init == TxInit /\ BindInit /\ StmtIdle /\ ConnIdle /\ GetIdle /\ ParseIdle /\ ResultIdle /\ PureIdle
Next == TxNext
Spec == Init /\ [][Next]_vars

\* statements, bindings and iterators, one call at a time
InitBind == TxIdle /\ BindInit /\ StmtIdle /\ ConnIdle /\ GetIdle /\ ParseIdle /\ ResultIdle /\ PureIdle
NextBind ==
    \/ DoPrepare \/ StmtBegin \/ ConnBegin \/ BindStep \/ ExecuteStep
    \/ NewRowsStep \/ ConnQueryDirect \/ DoStmtClose \/ DoRowsClose \/ DoRowsNext
SpecBind == InitBind /\ [][NextBind]_vars

\* statements and iterators of a connection that may be closed under them
InitClosed == TxIdle /\ BindInit /\ StmtIdle /\ ConnIdle /\ GetIdle /\ ParseIdle /\ ResultIdle /\ PureIdle
NextClosed ==
    \/ DoPrepare \/ StmtBegin \/ ConnBegin \/ BindStep \/ ExecuteStep
    \/ NewRowsStep \/ ConnQueryDirect \/ DoStmtClose \/ DoRowsClose \/ DoRowsNext
    \/ ConnCloseStep
SpecClosed == InitClosed /\ [][NextClosed]_vars

\* batches on one prepared statement
InitBatch ==
    /\ TxIdle /\ StmtIdle /\ ConnIdle /\ GetIdle /\ ParseIdle /\ ResultIdle /\ PureIdle
    /\ stmts = [s \in StmtIds |-> IF s = 1 THEN NewStmt("caller") ELSE NoStmt]
    /\ rws = [r \in RowIds |-> NoRows]
    /\ op = Returned("Prepare", 1, "nil", FALSE)
NextBatch ==
    \/ BatchBegin \/ BatchAttr \/ BatchCol \/ BatchExecute
    \/ RowStart \/ RowBind \/ RowExecute \/ DoStmtClose
SpecBatch == InitBatch /\ [][NextBatch]_vars

\* one prepared statement with an open iterator over it, and goroutines
InitStmt ==
    /\ TxIdle /\ StmtIdle /\ ConnIdle /\ GetIdle /\ ParseIdle /\ ResultIdle /\ PureIdle
    /\ stmts = [s \in StmtIds |-> IF s = 1 THEN NewStmt("caller") ELSE NoStmt]
    /\ rws = [r \in RowIds |->
                IF r = 1 THEN [NoRows EXCEPT !.exists = TRUE, !.stmt = 1] ELSE NoRows]
    /\ op = Returned("Query", 1, "nil", FALSE)
NextStmt ==
    \/ Call \/ LockEnter \/ Check \/ ExecuteReturn \/ CtxFire \/ WatchSelect
    \/ WatchCancel \/ CloseBody \/ RowsEnter \/ RowsSetClosed \/ RowsReturn
SpecStmt == InitStmt /\ [][NextStmt]_vars

\* one prepared statement that no query has been made on yet: ExecContext,
\* QueryContext (whose iterator is left alone) and Close from two goroutines
InitWatch ==
    /\ TxIdle /\ StmtIdle /\ ConnIdle /\ GetIdle /\ ParseIdle /\ ResultIdle /\ PureIdle
    /\ stmts = [s \in StmtIds |-> IF s = 1 THEN NewStmt("caller") ELSE NoStmt]
    /\ rws = [r \in RowIds |-> NoRows]
    /\ op = Returned("Prepare", 1, "nil", FALSE)
NextWatch ==
    \/ Call \/ LockEnter \/ Check \/ ExecuteReturn \/ CtxFire \/ WatchSelect
    \/ WatchCancel \/ CloseBody
SpecWatch == InitWatch /\ [][NextWatch]_vars

\* the same under the scheduling Go gives: a goroutine that can take a step
\* takes it, a goroutine waiting in Lock gets the mutex (sync.Mutex hands it
\* over to a starving waiter), and a driver call returns.  Nothing makes a
\* caller call or a context fire.
WatchFairness ==
    /\ \A g \in Goroutines :
          /\ SF_vars(LockEnter /\ thr'[g] # thr[g])
          /\ WF_vars(WatchSelect /\ wat'[g] # wat[g])
          /\ WF_vars(WatchCancel /\ wat'[g] # wat[g])
    /\ WF_vars(Check) /\ WF_vars(ExecuteReturn) /\ WF_vars(CloseBody)
SpecWatchLive == SpecWatch /\ WatchFairness

\* one connection and goroutines
InitConn == TxIdle /\ BindInit /\ StmtIdle /\ ConnIdle /\ GetIdle /\ ParseIdle /\ ResultIdle /\ PureIdle
NextConn ==
    \/ ConnCall \/ ConnLock \/ ConnAllocReturn \/ ConnDirectReturn \/ ConnCloseReturn
SpecConn == InitConn /\ [][NextConn]_vars

\* the methods that take a mutex, from two goroutines
InitLocks == TxIdle /\ BindInit /\ StmtIdle /\ LocksInit /\ GetIdle /\ ParseIdle /\ ResultIdle /\ PureIdle
NextLocks == LockCall \/ LockTake \/ LockGive \/ LockDriverCalls
SpecLocks == InitLocks /\ [][NextLocks]_vars

\* the retrieval of one column value of any kind and length
InitGet == TxIdle /\ BindInit /\ StmtIdle /\ ConnIdle /\ GetInit /\ ParseIdle /\ ResultIdle /\ PureIdle
NextGet == GetFirst \/ GetChunk
SpecGet == InitGet /\ [][NextGet]_vars

\* one ExecContext on a fresh statement, the ordinals of its arguments taken
\* from both sides of each limit: of 1, of maxParameters and of 16 bits
OrdinalValues == {-1, 0, 1, 2, 3, maxParameters + 1, 65535, 65536, 65537}
InitOrd ==
    /\ TxIdle /\ StmtIdle /\ ConnIdle /\ GetIdle /\ ParseIdle /\ ResultIdle /\ PureIdle
    /\ rws = [r \in RowIds |-> NoRows]
    /\ \E args \in UNION {[1..k -> OrdinalValues] : k \in 0..MaxArgs} :
          /\ stmts = [s \in StmtIds |->
                        IF s = 1 THEN MakeBuffers(NewStmt("caller"), Len(args))
                        ELSE NoStmt]
          /\ op = Running("Exec", 1, "bind", args, FALSE)
NextOrd == BindStep \/ ExecuteStep
SpecOrd == InitOrd /\ [][NextOrd]_vars

\* ParseNamedParams on every SQL text of up to MaxQuery pieces
InitParse == TxIdle /\ BindInit /\ StmtIdle /\ ConnIdle /\ GetIdle /\ ParseInit /\ ResultIdle /\ PureIdle
NextParse == Parse
SpecParse == InitParse /\ [][NextParse]_vars

\* PrepareContext on every SQL text of up to MaxQuery pieces
InitPrepare == TxIdle /\ BindInit /\ StmtIdle /\ ConnIdle /\ GetIdle /\ PrepareInit /\ ResultIdle /\ PureIdle
NextPrepare == PrepareText \/ PreparedBind
SpecPrepare == InitPrepare /\ [][NextPrepare]_vars

\* bindNamedParams with every table and argument list
InitNamed == TxIdle /\ BindInit /\ StmtIdle /\ ConnIdle /\ GetIdle /\ NamedInit /\ ResultIdle /\ PureIdle
NextNamed == NamedBegin \/ NamedPick \/ NamedBindPos
SpecNamed == InitNamed /\ [][NextNamed]_vars

\* the result of one array-bound batch, for every status array
InitResult ==
    TxIdle /\ BindInit /\ StmtIdle /\ ConnIdle /\ GetIdle /\ ParseIdle /\ ResultInit /\ PureIdle
NextResult == BatchProcess \/ RowByRowProcess
SpecResult == InitResult /\ [][NextResult]_vars

\* the classification of every error NewError can make, and of nil
InitClassify ==
    TxIdle /\ BindInit /\ StmtIdle /\ ConnIdle /\ GetIdle /\ ParseIdle /\ ResultIdle
    /\ ClassifyInit
NextClassify == Classify
SpecClassify == InitClassify /\ [][NextClassify]_vars

\* isValidDecimalString on every string up to MaxDecimal characters
InitDecimal ==
    TxIdle /\ BindInit /\ StmtIdle /\ ConnIdle /\ GetIdle /\ ParseIdle /\ ResultIdle
    /\ DecimalInit
NextDecimal == Validate
SpecDecimal == InitDecimal /\ [][NextDecimal]_vars

\* truncateFraction on nanosecond values across the range, at every precision
InitFraction ==
    TxIdle /\ BindInit /\ StmtIdle /\ ConnIdle /\ GetIdle /\ ParseIdle /\ ResultIdle
    /\ FractionInit
NextFraction == Truncate
SpecFraction == InitFraction /\ [][NextFraction]_vars

\* strings of up to MaxRunes scalars through stringToUTF16 and utf16ToString
InitUtf16 ==
    TxIdle /\ BindInit /\ StmtIdle /\ ConnIdle /\ GetIdle /\ ParseIdle /\ ResultIdle
    /\ Utf16Init
NextUtf16 == Encode \/ Decode
SpecUtf16 == InitUtf16 /\ [][NextUtf16]_vars

\* GUID strings parsed and, when that succeeds, formatted again
InitGuid ==
    TxIdle /\ BindInit /\ StmtIdle /\ ConnIdle /\ GetIdle /\ ParseIdle /\ ResultIdle
    /\ GuidInit
NextGuid == GuidParse \/ GuidFormat
SpecGuid == InitGuid /\ [][NextGuid]_vars

\* rows of up to MaxCols columns of every SQL type: the scan types, then a row
InitScan ==
    TxIdle /\ BindInit /\ StmtIdle /\ ConnIdle /\ GetIdle /\ ParseIdle /\ ResultIdle
    /\ ScanInit
NextScan == ScanType \/ ScanValue
SpecScan == InitScan /\ [][NextScan]_vars

\* HasNextResultSet and NextResultSet by turns over up to MaxResults sets
InitSets ==
    TxIdle /\ BindInit /\ StmtIdle /\ ConnIdle /\ GetIdle /\ ParseIdle /\ ResultIdle
    /\ SetsInit
NextSets == HasNextResultSet \/ NextResultSet
SpecSets == InitSets /\ [][NextSets]_vars

\* Connect, then calls on the connection, every driver call failing or not
InitHandles ==
    TxIdle /\ BindInit /\ StmtIdle /\ ConnIdle /\ GetIdle /\ ParseIdle /\ ResultIdle
    /\ HandlesInit
NextHandles ==
    \/ ConnectCall \/ ConnectAllocEnv \/ ConnectSetEnvAttr \/ ConnectAllocDbc
    \/ ConnectDriverConnect \/ HandleOpCall \/ HandleAllocStmt \/ HandlePrepare
    \/ HandleExecDirect \/ HandleNewRows \/ HandedClose
SpecHandles == InitHandles /\ [][NextHandles]_vars

\* AllocateColumnArray on every column of up to MaxBatchRows values
InitColumn ==
    TxIdle /\ BindInit /\ StmtIdle /\ ConnIdle /\ GetIdle /\ ParseIdle /\ ResultIdle
    /\ ColumnInit
NextColumn == Pack
SpecColumn == InitColumn /\ [][NextColumn]_vars

\* Rows.Next calls on an open iterator, the driver returning anything
InitRow == TxIdle /\ BindInit /\ StmtIdle /\ ConnIdle /\ gd = NextIdle("done") /\ ParseIdle /\ ResultIdle /\ PureIdle
NextRow == NextCall \/ NextFetch \/ NextFirst \/ NextChunk
SpecRow == InitRow /\ [][NextRow]_vars

-----------------------------------------------------------------------------
(* C1: once Commit or Rollback on a transaction has returned, with or      *)
(* without an error, autocommit is ON again at the driver: on an open      *)
(* connection autocommit is OFF only while a transaction is live.          *)
C1_AutocommitOffOnlyInTx ==
    (~conn.closed /\ drv.autocommit = SQL_AUTOCOMMIT_OFF) => conn.inTx

(* C2: Commit or Rollback on a Tx whose transaction has already ended      *)
(* returns nil and makes no driver call, whatever ran in between.          *)
C2_EndedTxIsNoOp ==
    (last.op \in {"Commit", "Rollback"} /\ last.stale) =>
        (last.err = "nil" /\ last.calls = <<>>)

(* C3: a Stmt.ExecContext or Stmt.QueryContext called on an open statement *)
(* with a context that is already cancelled returns the context's error    *)
(* and has invoked no driver function.                                     *)
C3_CancelledBeforeCall ==
    (Idle /\ op.name \in {"Exec", "Query"} /\ op.pre /\ ~op.again) =>
        (op.err = "ctx" /\ op.made = {})

(* C4: when the context fires while Execute is in flight, the watcher     *)
(* calls Cancel on the statement, and a failed Execute is reported as the  *)
(* context's error, not as a diagnostic-derived one.                       *)
C4_FiredInExecuteIsCancelled ==
    \A g \in Goroutines : thr[g].fired =>
        /\ wat[g].pc = "exit" => wat[g].cancels >= 1
        /\ thr[g].pc = "idle" => thr[g].err # "Error"

(* C4, as the code has it: when the context fires while Execute is in      *)
(* flight, a failed Execute is reported as the context's error; the        *)
(* watcher calls Cancel unless the call has returned before the watcher    *)
(* makes its choice, and it leaves without cancelling only after that.     *)
C4_FiredInExecuteReclassified ==
    \A g \in Goroutines : thr[g].fired =>
        /\ thr[g].pc = "idle" => thr[g].err # "Error"
        /\ wat[g].pc # "none"
        /\ (wat[g].pc = "exit" /\ wat[g].cancels = 0) => wat[g].done
        /\ (wat[g].pc = "exit" /\ ~wat[g].done) => wat[g].cancels = 1

\* the context fired during Execute, the watcher cancelled while Execute was
\* in flight, Execute failed and the call returned the context's error
C4_Witness ==
    \E g \in Goroutines :
        /\ thr[g].fired /\ thr[g].pc = "idle" /\ thr[g].err = "ctx"
        /\ wat[g].pc = "exit" /\ wat[g].cancels = 1 /\ ~wat[g].late

(* C5: every driver call on the connection handle, or on a statement      *)
(* handle a Conn operation allocated from it, is made with the             *)
(* connection's mutex held, so no two such calls are in flight together.   *)
C5_DriverCallsUnderMutex ==
    /\ \A g \in Goroutines : ConnInFlight(g) => cmu = g
    /\ \A g, h \in Goroutines : (ConnInFlight(g) /\ ConnInFlight(h)) => g = h

(* C6: apart from the watcher's Cancel, no two driver calls on the handle  *)
(* of one statement are in flight at the same time.                        *)
C6_OneCallInFlight ==
    \A g, h \in Goroutines : (InFlight(g) /\ InFlight(h)) => g = h

(* C7: between calls, every position that is bound at the driver points to *)
(* a buffer and a length cell the statement still holds.                   *)
C7_BoundPositionsHeld ==
    Idle => \A s \in StmtIds, p \in Positions :
              stmts[s].binds[p].bound =>
                  (stmts[s].binds[p].buf /\ stmts[s].binds[p].len)

(* C8: however many goroutines call Stmt.Close and however often, every    *)
(* call returns nil and the statement handle is freed exactly once.        *)
C8_CloseFreesOnce ==
    /\ stmts[1].frees <= 1
    /\ \A g \in Goroutines :
          (thr[g].name = "Close" /\ thr[g].pc = "idle") =>
              (thr[g].err = "nil" /\ stmts[1].frees = 1 /\ stmts[1].stmt = 0)

\* two goroutines were in Stmt.Close at the same time and both have returned
C8_Witness ==
    /\ \A g \in Goroutines : thr[g].name = "Close" /\ thr[g].pc = "idle"
    /\ \E g \in Goroutines : thr[g].overlap /\ thr[g].again
    /\ stmts[1].frees = 1

(* C9: over any number of Rows.Close calls the cursor is closed at most     *)
(* once; the statement of an iterator made by Conn.QueryContext is freed   *)
(* exactly once, by the first Close; an iterator over a statement the      *)
(* caller prepared never frees it.                                         *)
C9_RowsCloseFreesOnce ==
    \A r \in RowIds : rws[r].exists =>
        LET st == stmts[rws[r].stmt]
        IN /\ rws[r].cursorCloses = (IF rws[r].closed THEN 1 ELSE 0)
           /\ rws[r].direct =>
                  /\ st.frees = (IF rws[r].closed THEN 1 ELSE 0)
                  /\ st.rowFrees = st.frees
           /\ ~rws[r].direct => st.rowFrees = 0

\* an iterator of a direct query has been closed a second time
C9_Witness ==
    /\ Idle /\ op.name = "RowsClose" /\ op.again
    /\ rws[op.s].direct
    /\ stmts[rws[op.s].stmt].frees = 1

\* a value longer than the initial buffer has been delivered
Chunked == gd.pc = "done" /\ gd.len > bufSize(gd.kind, gd.colSize)

\* the bytes of the driver's data: wide data is UTF-16, low byte first
DriverBytes ==
    LET data == Data(gd.kind, gd.len)
    IN IF gd.kind = "wide"
       THEN [i \in 1..(2 * gd.len) |->
               IF i % 2 = 1 THEN data[(i + 1) \div 2] % 256
               ELSE data[i \div 2] \div 256]
       ELSE data

(* C10: a column value of L bytes, L larger than the initial buffer, is    *)
(* delivered with length exactly L and byte-identical to the driver's      *)
(* data, for narrow, wide and binary columns.                              *)
C10_DeliveredIsDriverData ==
    Chunked => (Len(gd.value) = Len(DriverBytes) /\ gd.value = DriverBytes)

(* C10, as the code has it: the elements assembled over the chunks are     *)
(* exactly the driver's, in order, without terminator, none lost and none  *)
(* twice; narrow and binary values are delivered as assembled, a wide      *)
(* value as the UTF-8 conversion of its code units.                        *)
C10_AssembledIsDriverData ==
    Chunked =>
        /\ gd.result = Data(gd.kind, gd.len)
        /\ gd.kind # "wide" => gd.value = Data(gd.kind, gd.len)
        /\ gd.kind = "wide" =>
               gd.value = utf16ToString(Data(gd.kind, gd.len), 1, gd.len)

\* a wide value delivered after three chunks
C10_Witness ==
    Chunked /\ gd.kind = "wide" /\ gd.loops >= 2 /\ Len(gd.value) > 0

(* C12: executing a prepared statement takes the return codes success,     *)
(* success-with-info and no-data as successful completion on the           *)
(* ExecContext and on the QueryContext path; only error and invalid-handle *)
(* make the call fail.                                                     *)
C12_NoDataIsSuccess ==
    [][(op.exe = <<>> /\ op'.exe # <<>>) =>
          LET ret == op'.exe[1]
          IN /\ ret \in {SQL_SUCCESS, SQL_SUCCESS_WITH_INFO, SQL_NO_DATA} =>
                    op'.err = "nil"
             /\ ret \in {SQL_ERROR, SQL_INVALID_HANDLE} =>
                    (op'.pc = "idle" /\ op'.err # "nil")]_vars

(* C13: binding rejects with an error every supplied parameter whose       *)
(* ordinal is below 1 or above 10,000, whatever integer the ordinal is,    *)
(* and makes no bind-parameter call for it.                                *)
C13_OrdinalOutOfRangeRejected ==
    [][(op.pc = "bind" /\ op.args # <<>>
        /\ (Head(op.args) < 1 \/ Head(op.args) > maxParameters)) =>
          /\ op'.pc = "idle" /\ op'.err # "nil"
          /\ stmts'[op.s].binds = stmts[op.s].binds]_vars

\* the values an argument list supplies for a name of the table: by name, or
\* by the ordinal of the name's first appearance in Names
Supplied(table, args, name) ==
    {args[k].Value : k \in {j \in DOMAIN args :
        \/ args[j].Name = name
        \/ /\ args[j].Name = <<>>
           /\ args[j].Ordinal >= 1 /\ args[j].Ordinal <= Len(table.Names)
           /\ table.Names[args[j].Ordinal] = name}}

Unsupplied(table, args) ==
    {n \in DOMAIN table.Positions : Supplied(table, args, n) = {}}

Prepared == np.pc \in {"prepared", "bound"} /\ ~ParseNamedParams(np.query).nil

(* C15: preparing SQL text that contains named parameters gives the        *)
(* rewritten positional text to the driver's prepare and stores the table  *)
(* of names and positions on the statement, so that a later execute on it  *)
(* binds by name.                                                          *)
C15_PrepareRewritesAndKeepsTable ==
    Prepared =>
        /\ np.sent = ParseNamedParams(np.query).Query
        /\ np.namedParams = ParseNamedParams(np.query)
        /\ np.pc = "bound" => np.byName

(* C18: while a transaction is live on a connection, every BeginTx on it   *)
(* returns an error, makes no driver call and leaves the connection and    *)
(* the driver's attributes as they were; at most one transaction is live   *)
(* on the connection at any time.                                          *)
C18_OneLiveTransaction ==
    [][/\ Cardinality({t \in TxIds : txOf'[t] = "live"}) <= 1
       /\ (conn.inTx /\ last'.op = "BeginTx") =>
             /\ last'.err # "nil" /\ last'.calls = <<>>
             /\ conn' = conn /\ drv' = drv /\ txOf' = txOf]_vars

\* a BeginTx has been rejected with a transaction live
C18_Witness ==
    /\ last.op = "BeginTx" /\ last.err = "already in a transaction"
    /\ conn.inTx /\ \E t \in TxIds : txOf[t] = "live"

(* C19: when the driver's end-transaction call succeeds, Commit, and       *)
(* likewise Rollback, returns nil even when the restoration of autocommit  *)
(* or of the access mode that follows fails at the driver.                 *)
C19_RestoreFailureNotReported ==
    (last.op \in {"Commit", "Rollback"} /\ last.endOk) => last.err = "nil"

(* C22: for every error made from diagnostic records, one or several, the  *)
(* classification depends only on the leading record's SQLState:           *)
(* IsConnectionError exactly when it begins with 08, IsDataTruncation      *)
(* exactly when it is 01004, IsRetryable exactly when it begins with 08 or *)
(* is one of 40001, 40003, HYT00, HYT01; all three are false for nil.      *)
C22_ClassifiedByLeadingState ==
    pf.pc = "done" =>
        IF pf.err = NilError
        THEN ~pf.connection /\ ~pf.truncation /\ ~pf.retryable
        ELSE LET leading == IF pf.records = <<>> THEN SQLStateGeneralError
                            ELSE pf.records[1]
                 is08 == SubSeq(leading, 1, 2) = <<"0", "8">>
             IN /\ pf.connection <=> is08
                /\ pf.truncation <=> leading = <<"0", "1", "0", "0", "4">>
                /\ pf.retryable <=>
                      \/ is08
                      \/ leading \in {<<"4", "0", "0", "0", "1">>, <<"4", "0", "0", "0", "3">>,
                                      <<"H", "Y", "T", "0", "0">>, <<"H", "Y", "T", "0", "1">>}

(* C23: isValidDecimalString accepts exactly the strings made of an        *)
(* optional leading sign followed by digits with at most one dot and at    *)
(* least one digit; it rejects the empty string, a bare sign or dot, more  *)
(* than one dot, a sign anywhere but first, and any other character.       *)
C23_DecimalAcceptedExactly ==
    pf.pc = "done" =>
        LET body == IF pf.s # <<>> /\ pf.s[1] \in {"+", "-"} THEN Tail(pf.s) ELSE pf.s
            dots == {i \in 1..Len(body) : body[i] = "."}
            digits == {i \in 1..Len(body) : body[i] \in DecimalDigits}
        IN pf.valid <=> /\ dots \cup digits = 1..Len(body)
                        /\ Cardinality(dots) <= 1
                        /\ digits # {}

C23_Witness ==
    /\ pf.pc = "done" /\ pf.valid
    /\ pf.s = <<"-", "0", ".", "9">>

\* 10 to the power k
RECURSIVE Pow10(_)
Pow10(k) == IF k = 0 THEN 1 ELSE 10 * Pow10(k - 1)

(* C24: for every nanosecond value n in [0, 10^9) and every precision p in *)
(* {0, 3, 6, 9}, truncateFraction(n, p) is a multiple of 10^(9-p), is at   *)
(* most n, and is less than 10^(9-p) below n: truncated, never rounded up. *)
C24_FractionTruncated ==
    (pf.pc = "done" /\ pf.precision \in {0, 3, 6, 9}) =>
        LET unit == Pow10(9 - pf.precision)
        IN /\ pf.fraction % unit = 0
           /\ pf.fraction <= pf.nanos
           /\ pf.nanos - pf.fraction < unit

C24_Witness ==
    /\ pf.pc = "done"
    /\ pf.nanos = 999999999 /\ pf.precision = 3
    /\ pf.fraction = 999000000

\* how many code units the runes before the k-th take
RECURSIVE UnitsBefore(_, _)
UnitsBefore(runes, k) ==
    IF k = 1 THEN 0
    ELSE UnitsBefore(runes, k - 1) + (IF runes[k - 1] > 65535 THEN 2 ELSE 1)

(* C25: for every Unicode scalar in [U+10000, U+10FFFF], stringToUTF16     *)
(* emits a high surrogate in [0xD800, 0xDBFF] immediately followed by a    *)
(* low surrogate in [0xDC00, 0xDFFF], and utf16ToString applied to that    *)
(* pair gives back the scalar.                                             *)
C25_SurrogatePairRoundTrip ==
    pf.pc \in {"encoded", "done"} =>
        \A k \in 1..Len(pf.runes) :
           (pf.runes[k] >= 65536 /\ pf.runes[k] <= 1114111) =>
               LET at == UnitsBefore(pf.runes, k)
               IN /\ Len(pf.units) >= at + 2
                  /\ pf.units[at + 1] >= 55296 /\ pf.units[at + 1] <= 56319
                  /\ pf.units[at + 2] >= 56320 /\ pf.units[at + 2] <= 57343
                  /\ utf16ToString(pf.units, at + 1, at + 2) = Utf8(pf.runes[k])

C25_Witness ==
    /\ pf.pc = "done"
    /\ pf.runes = <<128512>>
    /\ pf.units = <<55357, 56832, 0>>
    /\ pf.decoded = <<240, 159, 152, 128>>

\* 8-4-4-4-12 hex digits
IsCanonicalGuid(s) ==
    /\ Len(s) = 36
    /\ \A i \in 1..36 : IF i \in {9, 14, 19, 24} THEN s[i] = "-" ELSE HexVal(s[i]) >= 0

\* a string with its hex digits in upper case
UpperHex(s) ==
    [i \in 1..Len(s) |-> IF HexVal(s[i]) >= 0 THEN hexDigits[HexVal(s[i]) + 1] ELSE s[i]]

(* C26: for every canonical GUID string (8-4-4-4-12 hex digits) ParseGUID  *)
(* succeeds, and the String method of the GUID structure on the resulting  *)
(* 16 bytes gives the input string with its hex digits in upper case.      *)
C26_GuidParseFormatRoundTrip ==
    IsCanonicalGuid(pf.s) =>
        /\ pf.pc \in {"parsed", "done"} => pf.err = "nil"
        /\ pf.pc = "done" => pf.text = UpperHex(pf.s)

C26_Witness ==
    /\ pf.pc = "done" /\ pf.err = "nil"
    /\ SubSeq(pf.s, 1, 13) = <<"1", "2", "3", "4", "5", "6", "7", "8", "-", "9", "a", "b", "c">>
    /\ SubSeq(pf.text, 1, 13) = <<"1", "2", "3", "4", "5", "6", "7", "8", "-", "9", "A", "B", "C">>
    /\ SubSeq(pf.g, 1, 4) = <<120, 86, 52, 18>>

(* C27: for every result-column SQL type whose scan type is not opaque, a  *)
(* non-null value delivered by Rows.Next has exactly the native type that  *)
(* ColumnTypeScanType reports for the column.                              *)
C27_DeliveredTypeIsScanType ==
    \A i \in 1..Len(pf.dest) :
       (pf.scan[i] # "interface{}" /\ pf.dest[i] # "nil") => pf.dest[i] = pf.scan[i]

(* C28: within one bind-execute cycle, once the address of a position's    *)
(* length/indicator cell or value buffer has been passed to the driver's   *)
(* bind-parameter call, that storage is not reallocated, moved or replaced *)
(* until the parameters are reset: every position bound in the cycle       *)
(* points to storage the statement still holds.                            *)
C28_BoundStorageStays ==
    \A p \in Positions :
       stmts[1].binds[p].bound => (stmts[1].binds[p].buf /\ stmts[1].binds[p].len)

\* the same for the statement that bindNamedParams works on
C28_NamedBoundStorageStays ==
    np.pc # "idle" =>
        \A p \in Positions :
           np.st.binds[p].bound => (np.st.binds[p].buf /\ np.st.binds[p].len)

(* C29: for each ExecContext or QueryContext call with a cancellable        *)
(* context, the watcher calls the driver's cancel at most once, only after *)
(* the context has fired, and never after the call has signalled that      *)
(* execution finished.                                                     *)
C29_CancelBeforeFinished ==
    \A g \in Goroutines :
       /\ wat[g].cancels <= 1
       /\ wat[g].cancels = 1 => (thr[g].ctx = "fired" /\ ~wat[g].late)

\* a cancel made after the call returned, while another goroutine's Execute
\* is in flight on the statement or after the handle was freed
C29_LateCancelHitsNothing ==
    \A g \in Goroutines :
       (wat[g].pc = "cancel" /\ wat[g].done) =>
           /\ stmts[1].stmt # 0
           /\ \A h \in Goroutines : thr[h].pc # "execute"

(* C30: on every exit path of Stmt.ExecContext and Stmt.QueryContext (bind *)
(* failure, context already fired, execute failure, success) the watcher   *)
(* goroutine eventually terminates and the statement mutex is released, so *)
(* a later operation on the statement is never blocked forever.            *)
C30_WatcherEndsAndMutexFreed ==
    \A g \in Goroutines :
       /\ (thr[g].pc \in {"check", "execute"}) ~> (thr[g].pc = "idle" /\ mu # g)
       /\ (wat[g].pc \in {"select", "cancel"}) ~> (wat[g].pc = "exit")
       /\ (thr[g].pc = "lock") ~> (thr[g].pc # "lock")

C30_Witness ==
    \E g, h \in Goroutines :
       /\ g # h
       /\ thr[g].name \in {"Exec", "Query"} /\ thr[g].pc = "idle" /\ thr[g].err = "Error"
       /\ wat[g].pc = "exit" /\ wat[g].cancels = 0
       /\ thr[h].name = "Exec" /\ thr[h].pc = "execute" /\ mu = h

(* C31: HasNextResultSet only observes, it does not change which result   *)
(* set is current; so taking HasNextResultSet and NextResultSet by turns   *)
(* delivers all n result sets in order, and HasNextResultSet says yes      *)
(* exactly when another result set remains.                                *)
C31_HasNextOnlyObserves ==
    /\ pf.pc \in {"next", "done"} /\ pf.err = "nil" =>
          /\ pf.cur = pf.before
          /\ pf.has <=> pf.before < pf.n
    /\ pf.delivered = [i \in 1..Len(pf.delivered) |-> i]
    /\ (pf.pc = "done" /\ pf.err = "nil" /\ ~pf.has) => Len(pf.delivered) = pf.n

\* the sum of the first n entries of a sequence of numbers
RECURSIVE SumTo(_, _)
SumTo(counts, n) == IF n = 0 THEN 0 ELSE SumTo(counts, n - 1) + counts[n]

(* C21: in every BatchResult returned by ExecBatch, TotalRowsAffected is   *)
(* the sum of RowCounts over all parameter sets, on the array-binding path *)
(* and on the row-by-row path.                                             *)
C21_TotalIsSumOfRowCounts ==
    br.pc \in {"done", "rowdone"} =>
        br.result.TotalRowsAffected = SumTo(br.result.RowCounts, br.numRows)

\* the row-by-row path alone keeps the total equal to the sum
C21_RowByRowTotalIsSum ==
    br.pc = "rowdone" =>
        br.result.TotalRowsAffected = SumTo(br.result.RowCounts, br.numRows)

(* C20: in the BatchResult of a successful array-bound execute, every row  *)
(* whose status is success or success-with-info has a RowCounts entry of   *)
(* at least 1 and no error, every row whose status is error has an Errors  *)
(* entry, and every unused row has RowCounts 0.                            *)
C20_RowCountsFollowStatus ==
    (br.pc = "done" /\ br.numRows > 0 /\ IsSuccess(br.ret)) =>
        \A i \in 1..br.numRows :
           /\ br.statusArray[i] \in {SQL_PARAM_SUCCESS, SQL_PARAM_SUCCESS_WITH_INFO} =>
                 (br.result.RowCounts[i] >= 1 /\ ~br.result.Errors[i])
           /\ br.statusArray[i] = SQL_PARAM_ERROR => br.result.Errors[i]
           /\ br.statusArray[i] = SQL_PARAM_UNUSED => br.result.RowCounts[i] = 0

\* The regions of a SQL text, read one character at a time: the indices of
\* the characters of single-quoted literals, double-quoted identifiers, --
\* comments and block comments, delimiters included.  A doubled quote inside
\* a quoted region closes it and opens it again.
RECURSIVE Regions(_, _, _)
Regions(query, i, mode) ==
    IF i > Len(query) THEN {}
    ELSE LET c == query[i]
             next == IF i + 1 <= Len(query) THEN query[i + 1] ELSE "none"
         IN CASE mode = "normal" ->
                   IF c = "'" THEN {i} \cup Regions(query, i + 1, "single")
                   ELSE IF c = "\"" THEN {i} \cup Regions(query, i + 1, "double")
                   ELSE IF c = "-" /\ next = "-"
                   THEN {i, i + 1} \cup Regions(query, i + 2, "line")
                   ELSE IF c = "/" /\ next = "*"
                   THEN {i, i + 1} \cup Regions(query, i + 2, "block")
                   ELSE Regions(query, i + 1, "normal")
              [] mode = "single" ->
                   {i} \cup Regions(query, i + 1, IF c = "'" THEN "normal" ELSE "single")
              [] mode = "double" ->
                   {i} \cup Regions(query, i + 1, IF c = "\"" THEN "normal" ELSE "double")
              [] mode = "line" ->
                   IF c = "NL" THEN Regions(query, i + 1, "normal")
                   ELSE {i} \cup Regions(query, i + 1, "line")
              [] OTHER ->
                   IF c = "*" /\ next = "/"
                   THEN {i, i + 1} \cup Regions(query, i + 2, "normal")
                   ELSE {i} \cup Regions(query, i + 1, "block")

\* where the named-parameter tokens of a text start: a sigil outside every
\* region with an identifier start after it
Tokens(query) ==
    {i \in 1..Len(query) \ Regions(query, 1, "normal") :
        /\ query[i] \in Sigils
        /\ i + 1 <= Len(query) /\ isIdentStart(query[i + 1])}

\* the index after the token that starts at i, and the token's name
TokenEnd(query, i) ==
    CHOOSE j \in (i + 2)..(Len(query) + 1) :
       /\ j = Len(query) + 1 \/ ~isIdentChar(query[j])
       /\ \A k \in (i + 1)..(j - 1) : isIdentChar(query[k])
TokenName(query, i) == SubSeq(query, i + 1, TokenEnd(query, i) - 1)

\* the text with each token replaced by one marker and nothing else changed
RECURSIVE Rewritten(_, _)
Rewritten(query, i) ==
    IF i > Len(query) THEN <<>>
    ELSE IF i \in Tokens(query)
    THEN <<"?">> \o Rewritten(query, TokenEnd(query, i))
    ELSE <<query[i]>> \o Rewritten(query, i + 1)

\* the parameter position, in the rewritten text, of the marker that stands
\* for the token at i: markers are counted outside the regions
MarkerPosition(query, i) ==
    Cardinality({j \in 1..i :
                    \/ j \in Tokens(query)
                    \/ query[j] = "?" /\ j \notin Regions(query, 1, "normal")})

(* C16: each named-parameter token outside the regions becomes one marker; *)
(* for a name occurring k times, Positions[name] lists in increasing order *)
(* the parameter positions of exactly its k markers in the rewritten text, *)
(* and Names holds each name once, in order of first appearance.           *)
C16_PositionsAreMarkerPositions ==
    (np.pc = "parsed" /\ ~np.parsed.nil) =>
        LET q == np.query
            r == np.parsed
            At(n) == {i \in Tokens(q) : TokenName(q, i) = n}
            First(n) == CHOOSE i \in At(n) : \A j \in At(n) : i <= j
        IN /\ {r.Names[k] : k \in 1..Len(r.Names)} = {TokenName(q, i) : i \in Tokens(q)}
           /\ \A k, l \in 1..Len(r.Names) :
                 k < l => First(r.Names[k]) < First(r.Names[l])
           /\ DOMAIN r.Positions = {TokenName(q, i) : i \in Tokens(q)}
           /\ \A n \in DOMAIN r.Positions :
                 /\ Len(r.Positions[n]) = Cardinality(At(n))
                 /\ \A k, l \in 1..Len(r.Positions[n]) :
                       k < l => r.Positions[n][k] < r.Positions[n][l]
                 /\ {r.Positions[n][k] : k \in 1..Len(r.Positions[n])} =
                       {MarkerPosition(q, i) : i \in At(n)}

(* C17: the result is nil for every text without a named-parameter token   *)
(* outside the regions; otherwise the rewritten text is the input with     *)
(* each such token replaced by one marker and every other character, those *)
(* inside the regions included, unchanged.                                 *)
C17_RewriteOnlyOutsideRegions ==
    np.pc = "parsed" =>
        IF Tokens(np.query) = {} THEN np.parsed.nil
        ELSE ~np.parsed.nil /\ np.parsed.Query = Rewritten(np.query, 1)

\* a text with a token inside a region and one outside has been rewritten
C17_Witness ==
    /\ np.pc = "parsed" /\ ~np.parsed.nil
    /\ \E i \in Regions(np.query, 1, "normal") :
          /\ np.query[i] \in Sigils
          /\ i + 1 <= Len(np.query) /\ isIdentStart(np.query[i + 1])
    /\ \E i \in 1..Len(np.parsed.Query) : np.parsed.Query[i] = "?"

(* C11: whenever the fetch or a get-data call made during Rows.Next, those  *)
(* of the truncation loop included, returns error or invalid-handle, Next  *)
(* returns a non-nil error and delivers no value for the column it was     *)
(* reading.                                                                *)
C11_DriverFailureIsError ==
    (gd.pc = "done" /\ gd.failedAt # "none") =>
        /\ gd.err # "nil"
        /\ gd.failedCol > 0 => gd.dest[gd.failedCol] = "unset"

\* C32: once Conn.Close has returned, no call on a statement prepared on the
\* connection or on an iterator of such a statement makes a driver call: the
\* call that is running or has just returned has made none.
C32_NoDriverCallAfterConnClose ==
    conn.closed => op.made = {}

\* C33: when ExecBatch has returned a result, the paramset size of the
\* statement is 1 again and neither the status array nor the rows-processed
\* cell of the batch is registered at the driver any more.
C33_BatchAttributesReset ==
    (op.name = "Batch" /\ op.pc = "idle" /\ op.err = "nil") =>
        /\ stmts[op.s].paramsetSize = 1
        /\ ~stmts[op.s].statusPtr
        /\ ~stmts[op.s].processedPtr

\* C34: when ExecBatch has returned a result, on the array path and on the
\* row-by-row path alike and whatever came of each row, the parameters were
\* reset after the last bind: no position is bound at the driver.
C34_BatchLeavesNoBinding ==
    (op.name = "Batch" /\ op.pc = "idle" /\ op.err = "nil") =>
        \A p \in Positions : ~stmts[op.s].binds[p].bound

\* C35: no goroutine waits in Lock for the connection's or a statement's
\* mutex while it holds one of them, and so whenever a call is under way
\* some goroutine can take its next step: there is no deadlock.
C35_NoHoldAndWait ==
    /\ \A g \in Goroutines : AtLock(g) => Held(g) = {}
    /\ (\E g \in Goroutines : cthr[g].pc = "run") => \E g \in Goroutines : CanStep(g)

\* one goroutine is inside the statement's call of Conn.ExecContext with
\* arguments, holding s.mu, while the other waits in Lock for s.mu
C35_Witness ==
    \E g, h \in Goroutines :
       /\ g # h
       /\ cthr[g].name = "Conn.ExecContext(args)" /\ mu = g
       /\ AtLock(h) /\ Head(cthr[h].todo) = "Ls" /\ cthr[h].name = "Rows.Close(closeStmt)"

\* C36: a BeginTx that returns an error leaves the connection as it was: no
\* transaction has become live, and autocommit, access mode and isolation
\* level at the driver are what they were before the call.
C36_FailedBeginTxChangesNothing ==
    [][(DoBeginTx /\ last'.err # "nil") =>
          /\ conn' = conn
          /\ txOf' = txOf
          /\ drv' = drv]_vars

\* C37: whatever return codes and length indicators the driver gives, every
\* turn of the truncation loop either leaves the loop or leaves strictly
\* less of the byte budget remaining, so the loop ends.
C37_LoopLeavesOrDecreases ==
    [][(gd.pc = "loop" /\ gd'.pc = "loop") => gd'.remaining < gd.remaining]_vars

\* C38: on every failure path of Connect, PrepareContext and the direct
\* paths of ExecContext and QueryContext, each handle the call allocated is
\* freed exactly once before the return, a handle before the one it was
\* allocated from, and no driver call, reading diagnostics included, is made
\* on a handle after it was freed.
C38_FailureFreesEachHandleOnce ==
    /\ pf.onFreed = {}
    /\ ~pf.order
    /\ (pf.pc = "idle" /\ pf.err # "nil") =>
          \A k \in pf.mine : pf.h[k] = "freed" /\ pf.frees[k] = 1

\* C39: for a column of N values that AllocateColumnArray packed, the
\* length/indicator array has N entries, entry i is the NULL indicator
\* exactly when value i is nil, the bytes written for row i lie within
\* [i * stride, (i + 1) * stride), and no recorded length exceeds the stride.
C39_ColumnPackedInStrides ==
    (pf.pc = "packed" /\ ~pf.buf.nil) =>
        /\ Len(pf.buf.Lengths) = Len(pf.values)
        /\ \A i \in 1..Len(pf.values) :
              /\ pf.buf.Lengths[i] = SQL_NULL_DATA <=> pf.values[i] = NilValue
              /\ pf.buf.extents[i].lo >= (i - 1) * pf.buf.ElemSize
              /\ pf.buf.extents[i].hi <= i * pf.buf.ElemSize
              /\ pf.buf.Lengths[i] <= pf.buf.ElemSize

====
